---------------------------- MODULE Spec2Model ----------------------------
(***************************************************************************)
(* Model of beta-evolve: the region engine (evolution.c), the testing      *)
(* pipeline (testing.c, run_custom_test), the evaluation history           *)
(* (evaluation.c) and the iteration loop of run_collaboration (main.c).    *)
(*                                                                         *)
(* Text is a sequence of tokens <<name, width>>.  A token stands for the   *)
(* first width characters of the literal called name;      the literals     *)
(* that the program searches for (the two evolution markers, the code      *)
(* fence) are single tokens of their full width, every other character is  *)
(* a token of width 1, and <<"z", n>> is a run of n letters z.  strlen is   *)
(* the sum of the widths, so the size limits of the program (255           *)
(* description characters, max_code_size) keep their meaning.              *)
(*                                                                         *)
(* Memory allocation is taken to succeed except where a claim is about     *)
(* the failure path: prompt generation and response validation in          *)
(* run_collaboration, and the result buffers of the test pipelines.        *)
(***************************************************************************)
EXTENDS Integers, Sequences, FiniteSets, TLC

(***************************************************************************)
(* Program constants                                                       *)
(***************************************************************************)
MAX_EVOLUTION_REGIONS == 50
MAX_EVOLUTION_DESCRIPTION == 256
MAX_PARSE_LINES == 4095

(***************************************************************************)
(* Bounds of the model                                                     *)
(***************************************************************************)
MaxIterations == 2      \* largest configured iteration count N
MaxApiOps == 3          \* region-engine calls explored on one context
ModelCodeSize == 64     \* config->max_code_size of the modelled runs
ModelResponseSize == 256 \* config->max_response_size of the modelled runs
LongPad == 300          \* length of the run of z in the long description
ManyRegions == 51       \* marker pairs in the largest parsed source
MaxTurns == 2           \* largest max_conversation_turns of a message buffer
MaxMessages == 6        \* add_message calls explored on one conversation
MaxResponseLen == 4     \* tokens of the longest validated response
MaxHistory == 3         \* evaluations saved in one history

(***************************************************************************)
(* Characters and literals                                                 *)
(***************************************************************************)
Ch(c) == <<c, 1>>
START == <<"START", 20>>                  \* EVOLUTION_MARKER_START
END == <<"END", 18>>                      \* EVOLUTION_MARKER_END
FENCE == <<"FENCE", 3>>                   \* the three backquotes of a code fence
NL == Ch("\n")
SP == Ch(" ")
TAB == Ch("\t")
CR == Ch("\r")
COLON == Ch(":")
NULL == << <<"NULL", 0>> >>

Min(S) == CHOOSE x \in S : \A y \in S : x <= y

\* the least i in from..to with P(i), 0 when there is none
First(from, to, P(_)) ==
    IF \E i \in from..to : P(i)
    THEN CHOOSE i \in from..to : P(i) /\ \A j \in from..(i - 1) : ~P(j)
    ELSE 0

RECURSIVE strlen(_)
strlen(s) ==
    IF s = <<>> THEN 0
    ELSE IF Len(s) = 1 THEN s[1][2]
    ELSE strlen(SubSeq(s, 1, Len(s) \div 2)) + strlen(SubSeq(s, Len(s) \div 2 + 1, Len(s)))

RECURSIVE Concat(_)
Concat(ss) == IF ss = <<>> THEN <<>> ELSE Head(ss) \o Concat(Tail(ss))

MatchAt(s, p, i) ==
    /\ i + Len(p) - 1 <= Len(s)
    /\ \A k \in 1..Len(p) : s[i + k - 1] = p[k]

\* strstr(s + from - 1, p): position of the first match at or after from,
\* 0 when there is none
strstr(s, p, from) ==
    LET match(i) == MatchAt(s, p, i)
    IN First(from, Len(s), match)

\* strchr(s + from - 1, c)
strchr(s, c, from) == strstr(s, <<c>>, from)

\* strncpy(dst, s, n) followed by dst[n] = 0: the first n characters of s
RECURSIVE strncpy(_, _)
strncpy(s, n) ==
    IF s = <<>> \/ n <= 0 THEN <<>>
    ELSE IF Head(s)[2] <= n THEN <<Head(s)>> \o strncpy(Tail(s), n - Head(s)[2])
    ELSE << <<Head(s)[1], n>> >>

IsSpace(t) == t \in {SP, TAB, NL, CR}

\* while (end > s && isspace(*end)) *end-- = 0: the first character stays
RECURSIVE TrimTrailing(_)
TrimTrailing(s) ==
    IF Len(s) > 1 /\ IsSpace(s[Len(s)]) THEN TrimTrailing(SubSeq(s, 1, Len(s) - 1))
    ELSE s

\* snprintf("%d", n) for n >= 0
RECURSIVE Dec(_)
Dec(n) ==
    LET d == Ch(CASE n % 10 = 0 -> "0" [] n % 10 = 1 -> "1" [] n % 10 = 2 -> "2"
                  [] n % 10 = 3 -> "3" [] n % 10 = 4 -> "4" [] n % 10 = 5 -> "5"
                  [] n % 10 = 6 -> "6" [] n % 10 = 7 -> "7" [] n % 10 = 8 -> "8"
                  [] OTHER -> "9")
    IN IF n < 10 THEN <<d>> ELSE Dec(n \div 10) \o <<d>>

\* strtok(code, "\n") in a loop: the non-empty lines, at most 4095 of them
\* (the text between lo and hi is cut at a newline near its middle, so the
\* depth of the recursion stays logarithmic in the number of lines)
RECURSIVE SplitLines(_, _, _)
SplitLines(s, lo, hi) ==
    LET nl(i) == s[i] = NL
        m == (lo + hi) \div 2
        after == First(m, hi, nl)
        before == CHOOSE i \in lo..(m - 1) : nl(i) /\ \A j \in (i + 1)..(m - 1) : ~nl(j)
        cut == IF after # 0 THEN after ELSE before
    IN IF lo > hi THEN <<>>
       ELSE IF ~\E i \in lo..hi : nl(i) THEN <<SubSeq(s, lo, hi)>>
       ELSE SplitLines(s, lo, cut - 1) \o SplitLines(s, cut + 1, hi)

Lines(code) ==
    LET all == SplitLines(code, 1, Len(code))
    IN IF Len(all) > MAX_PARSE_LINES THEN SubSeq(all, 1, MAX_PARSE_LINES) ELSE all

(***************************************************************************)
(* Region engine                                                           *)
(***************************************************************************)
init_code_evolution ==
    [regions |-> <<>>, evolution_enabled |-> FALSE, current_generation |-> 0,
     total_generations |-> 0, evaluation_history |-> <<>>]

\* the description that follows the start marker of a line
RECURSIVE SkipSeparators(_)
SkipSeparators(s) ==
    IF s # <<>> /\ Head(s) \in {SP, TAB, COLON} THEN SkipSeparators(Tail(s)) ELSE s

MarkerDescription(line, region_idx) ==
    LET at == strstr(line, <<START>>, 1)
        desc_start == SkipSeparators(SubSeq(line, at + 1, Len(line)))
    IN IF desc_start # <<>>
       THEN TrimTrailing(strncpy(desc_start, MAX_EVOLUTION_DESCRIPTION - 1))
       ELSE << <<"region_", 7>> >> \o Dec(region_idx + 1)

\* an iteration in which a start marker met inside an open region opens the
\* region anew
ParseLine_NestedRestarts(line, i, st) ==
    IF strstr(line, <<START>>, 1) # 0 THEN
        [st EXCEPT !.in_region = TRUE, !.start_line = i,
                   !.description = MarkerDescription(line, Len(st.regions)),
                   !.content = <<>>]
    ELSE IF strstr(line, <<END>>, 1) # 0 THEN
        IF ~st.in_region THEN st
        ELSE [regions |-> Append(st.regions,
                 [content |-> st.content,
                  description |-> strncpy(st.description, MAX_EVOLUTION_DESCRIPTION - 1),
                  start_line |-> st.start_line, end_line |-> i,
                  generation |-> 0, fitness_score |-> 0]),
              in_region |-> FALSE, start_line |-> -1,
              description |-> <<>>, content |-> NULL]
    ELSE IF st.in_region
        THEN [st EXCEPT !.content = st.content \o line \o <<NL>>]
        ELSE st

\* one iteration of the loop over the lines in parse_evolution_regions; i is
\* the 0-based line index, content = NULL while no region is open
ParseLine(line, i, st) ==
    IF strstr(line, <<START>>, 1) # 0 THEN
        IF st.in_region THEN st
        ELSE [st EXCEPT !.in_region = TRUE, !.start_line = i,
                        !.description = MarkerDescription(line, Len(st.regions)),
                        !.content = <<>>]
    ELSE IF strstr(line, <<END>>, 1) # 0 THEN
        IF ~st.in_region THEN st
        ELSE [regions |-> Append(st.regions,
                 [content |-> st.content,
                  description |-> strncpy(st.description, MAX_EVOLUTION_DESCRIPTION - 1),
                  start_line |-> st.start_line, end_line |-> i,
                  generation |-> 0, fitness_score |-> 0]),
              in_region |-> FALSE, start_line |-> -1,
              description |-> <<>>, content |-> NULL]
    ELSE IF st.in_region
        THEN [st EXCEPT !.content = st.content \o line \o <<NL>>]
        ELSE st

\* the n iterations that start at line i, each run only while the loop
\* condition holds (once false it stays false); the range is halved so that
\* the depth of the recursion is logarithmic
RECURSIVE ParseLoop(_, _, _, _)
ParseLoop(lines, i, n, st) ==
    IF n <= 0 THEN st
    ELSE IF n = 1
         THEN IF i < Len(lines) /\ Len(st.regions) < MAX_EVOLUTION_REGIONS
              THEN ParseLine(lines[i + 1], i, st)
              ELSE st
         ELSE LET half == ParseLoop(lines, i, n \div 2, st)
              IN IF half.in_region \in BOOLEAN    \* the first half is run first
                 THEN ParseLoop(lines, i + (n \div 2), n - (n \div 2), half)
                 ELSE half

\* parse_evolution_regions that does not clear the context of a code without
\* a start marker
parse_evolution_regions_NoClear(evolution, code) ==
    IF strstr(code, <<START>>, 1) = 0
    THEN [evolution EXCEPT !.evolution_enabled = FALSE]
    ELSE LET lines == Lines(code) IN
         [init_code_evolution EXCEPT
            !.evolution_enabled = TRUE,
            !.regions = ParseLoop(lines, 0, Len(lines),
                          [regions |-> <<>>, in_region |-> FALSE, start_line |-> -1,
                           description |-> <<>>, content |-> NULL]).regions]

parse_evolution_regions(evolution, code) ==
    IF strstr(code, <<START>>, 1) = 0
    THEN init_code_evolution
    ELSE LET lines == Lines(code) IN
         [init_code_evolution EXCEPT
            !.evolution_enabled = TRUE,
            !.regions = ParseLoop(lines, 0, Len(lines),
                          [regions |-> <<>>, in_region |-> FALSE, start_line |-> -1,
                           description |-> <<>>, content |-> NULL]).regions]

\* the value parse_evolution_regions returns: the region count, -1 for a
\* missing code
ParseReturn(code, parsed) == IF code = NULL THEN -1 ELSE Len(parsed.regions)

\* the first region whose recorded span of lines holds line i, 0 if none
RegionAt(evolution, i) ==
    LET R == {r \in 1..Len(evolution.regions) :
                 evolution.regions[r].start_line <= i /\ evolution.regions[r].end_line >= i}
    IN IF R = {} THEN 0 ELSE Min(R)

\* content[strlen(content) - 1] != '\n': for an empty content the byte in
\* front of the buffer is read, and wild tells whether it is a newline
EndsWithNewline(content, wild) ==
    IF content = <<>> THEN wild ELSE content[Len(content)] = NL

\* a line with the start marker, met outside a region: the marker line, then
\* the content of the region found for line i and the search for the end
\* marker from this very line, or the original lines when none is found
AssembleStart(evolution, line, st, r, wild) ==
    IF r # 0
    THEN [out |-> st.out \o line \o <<NL>> \o evolution.regions[r].content
                     \o (IF EndsWithNewline(evolution.regions[r].content, wild)
                         THEN <<>> ELSE <<NL>>)
                     \o (IF strstr(line, <<END>>, 1) # 0 THEN line \o <<NL>> ELSE <<>>),
          mode |-> IF strstr(line, <<END>>, 1) # 0 THEN "line" ELSE "skip"]
    ELSE [out |-> st.out \o line \o <<NL>>, mode |-> "copy"]

\* one line of the loop of assemble_evolved_code; mode "line" outside a
\* region, "skip" while the original body of a replaced region is passed
\* over, "copy" while the original body is kept
AssembleLine(evolution, line, i, st, wild) ==
    IF st.mode = "line"
    THEN IF strstr(line, <<START>>, 1) # 0
         THEN AssembleStart(evolution, line, st, RegionAt(evolution, i), wild)
         ELSE [st EXCEPT !.out = @ \o line \o <<NL>>]
    ELSE IF strstr(line, <<END>>, 1) # 0
         THEN [out |-> st.out \o line \o <<NL>>, mode |-> "line"]
         ELSE IF st.mode = "copy" THEN [st EXCEPT !.out = @ \o line \o <<NL>>]
         ELSE st

\* the n lines that start at line i, the range halved as in ParseLoop
RECURSIVE AssembleLoop(_, _, _, _, _, _)
AssembleLoop(evolution, lines, i, n, st, wild) ==
    IF n <= 0 THEN st
    ELSE IF n = 1 THEN AssembleLine(evolution, lines[i + 1], i, st, wild)
    ELSE LET half == AssembleLoop(evolution, lines, i, n \div 2, st, wild)
         IN IF half.mode \in {"line", "skip", "copy"}    \* the first half is run first
            THEN AssembleLoop(evolution, lines, i + (n \div 2), n - (n \div 2), half, wild)
            ELSE half

AssembleLines(evolution, lines, wild) ==
    AssembleLoop(evolution, lines, 0, Len(lines), [out |-> <<>>, mode |-> "line"], wild).out

assemble_evolved_code(evolution, original_code, wild) ==
    IF original_code = NULL THEN NULL
    ELSE IF ~evolution.evolution_enabled \/ Len(evolution.regions) = 0 THEN original_code
    ELSE AssembleLines(evolution, SplitLines(original_code, 1, Len(original_code)), wild)

\* index of the first region whose description compares equal, 0 if none
FindRegion(evolution, region_desc) ==
    LET I == {i \in 1..Len(evolution.regions) :
                 evolution.regions[i].description = region_desc}
    IN IF I = {} THEN 0 ELSE Min(I)

\* update_evolution_region that appends a new region to a full context too
update_evolution_region_NoCap(evolution, region_desc, new_content) ==
    LET i == FindRegion(evolution, region_desc) IN
    IF i # 0
    THEN [evolution EXCEPT !.regions[i].content = new_content,
                           !.regions[i].generation = @ + 1]
    ELSE [evolution EXCEPT !.regions = Append(@,
             [content |-> new_content,
              description |-> strncpy(region_desc, MAX_EVOLUTION_DESCRIPTION - 1),
              start_line |-> 0, end_line |-> 0,
              generation |-> 1, fitness_score |-> 0])]

\* update_evolution_region that stores the found region the way it stores a
\* new one: line span and fitness are set to 0
update_evolution_region_FoundAsNew(evolution, region_desc, new_content) ==
    LET i == FindRegion(evolution, region_desc) IN
    IF i # 0
    THEN [evolution EXCEPT !.regions[i].content = new_content,
                           !.regions[i].generation = @ + 1,
                           !.regions[i].start_line = 0,
                           !.regions[i].end_line = 0,
                           !.regions[i].fitness_score = 0]
    ELSE IF Len(evolution.regions) < MAX_EVOLUTION_REGIONS
    THEN [evolution EXCEPT !.regions = Append(@,
             [content |-> new_content,
              description |-> strncpy(region_desc, MAX_EVOLUTION_DESCRIPTION - 1),
              start_line |-> 0, end_line |-> 0,
              generation |-> 1, fitness_score |-> 0])]
    ELSE evolution

\* update_evolution_region without the generation++ of the found region
update_evolution_region_NoIncrement(evolution, region_desc, new_content) ==
    LET i == FindRegion(evolution, region_desc) IN
    IF i # 0
    THEN [evolution EXCEPT !.regions[i].content = new_content]
    ELSE IF Len(evolution.regions) < MAX_EVOLUTION_REGIONS
    THEN [evolution EXCEPT !.regions = Append(@,
             [content |-> new_content,
              description |-> strncpy(region_desc, MAX_EVOLUTION_DESCRIPTION - 1),
              start_line |-> 0, end_line |-> 0,
              generation |-> 1, fitness_score |-> 0])]
    ELSE evolution

\* update_evolution_region that leaves the generation of a new region at 0
update_evolution_region_NewAtZero(evolution, region_desc, new_content) ==
    LET i == FindRegion(evolution, region_desc) IN
    IF i # 0
    THEN [evolution EXCEPT !.regions[i].content = new_content,
                           !.regions[i].generation = @ + 1]
    ELSE IF Len(evolution.regions) < MAX_EVOLUTION_REGIONS
    THEN [evolution EXCEPT !.regions = Append(@,
             [content |-> new_content,
              description |-> strncpy(region_desc, MAX_EVOLUTION_DESCRIPTION - 1),
              start_line |-> 0, end_line |-> 0,
              generation |-> 0, fitness_score |-> 0])]
    ELSE evolution

update_evolution_region(evolution, region_desc, new_content) ==
    LET i == FindRegion(evolution, region_desc) IN
    IF i # 0
    THEN [evolution EXCEPT !.regions[i].content = new_content,
                           !.regions[i].generation = @ + 1]
    ELSE IF Len(evolution.regions) < MAX_EVOLUTION_REGIONS
    THEN [evolution EXCEPT !.regions = Append(@,
             [content |-> new_content,
              description |-> strncpy(region_desc, MAX_EVOLUTION_DESCRIPTION - 1),
              start_line |-> 0, end_line |-> 0,
              generation |-> 1, fitness_score |-> 0])]
    ELSE evolution

\* the lookup by description that update itself performs
LookupContent(evolution, region_desc) ==
    LET i == FindRegion(evolution, region_desc)
    IN IF i = 0 THEN NULL ELSE evolution.regions[i].content

(***************************************************************************)
(* State                                                                   *)
(***************************************************************************)
(***************************************************************************)
(* Agent responses (ai.c)                                                  *)
(***************************************************************************)
FENCE_C == <<FENCE, Ch("c")>>
ANALYSIS == <<"Analysis: Attempting to fix the code.", 37>>
MAIN == <<"int main", 8>>
VOID_MAIN == <<"void main", 9>>

\* an opening fence that is the first fence, tagged or not
FindFence_FirstFence(response) == strstr(response, <<FENCE>>, 1)

\* the opening fence both readers of a response look for: the first fence
\* tagged c, else the first fence, 0 when there is none
FindFence(response) ==
    LET tagged == strstr(response, FENCE_C, 1)
    IN IF tagged # 0 THEN tagged ELSE strstr(response, <<FENCE>>, 1)

\* alloc_ok: malloc/strdup of the cleaned copy succeeds
validate_and_clean_response(response, alloc_ok) ==
    IF response = NULL \/ ~alloc_ok THEN NULL
    ELSE LET code_start == FindFence(response) IN
         IF code_start = 0
         THEN <<ANALYSIS, NL, NL, FENCE, Ch("c"), NL>> \o response \o <<NL, FENCE>>
         ELSE IF strstr(response, <<FENCE>>, code_start + 1) = 0
              THEN response \o <<NL, FENCE>>
              ELSE response

\* a buffer that drops its newest message when it is full
add_message_EvictNewest(msgs, max_messages, max_response_size, sender, content) ==
    LET kept == IF Len(msgs) >= max_messages
                THEN SubSeq(msgs, 1, max_messages - 1) ELSE msgs
    IN Append(kept, [sender |-> sender, content |-> strncpy(content, max_response_size - 1)])

\* add_message: a sliding window of max_messages entries, the content cut to
\* max_response_size - 1 characters
add_message(msgs, max_messages, max_response_size, sender, content) ==
    LET kept == IF Len(msgs) >= max_messages
                THEN SubSeq(msgs, 2, max_messages) ELSE msgs
    IN Append(kept, [sender |-> sender, content |-> strncpy(content, max_response_size - 1)])

(***************************************************************************)
(* Testing pipeline (testing.c, run_custom_test in evolution.c)            *)
(*                                                                         *)
(* The environment of one test run: alloc_ok (the two result buffers are   *)
(* allocated), file_ok (the file under test can be written), popen_ok (for *)
(* each command in turn), stage_allocs (how many of the three output       *)
(* buffers of the stages can be allocated), the                            *)
(* exit codes of the commands in the order they are run, and what a        *)
(* command prints.                                                         *)
(***************************************************************************)
TestResult(s, c, e, msg, out) ==
    [syntax_ok |-> s, compilation_ok |-> c, execution_ok |-> e,
     error_message |-> msg, output |-> out]

\* test_result_t result = {0} with neither buffer allocated
NullTestResult == TestResult(FALSE, FALSE, FALSE, NULL, NULL)

\* memset(&conv->last_test_result, 0, ...) with two empty buffers
ZeroTestResult == TestResult(FALSE, FALSE, FALSE, <<>>, <<>>)

has_code_errors(test_result) ==
    ~test_result.syntax_ok \/ ~test_result.compilation_ok \/ ~test_result.execution_ok

\* snprintf(buffer, size, ...): the first size - 1 characters of the text
snprintf(size, text) == strncpy(text, size - 1)

\* snprintf("%d", n)
DecInt(n) == IF n < 0 THEN <<Ch("-")>> \o Dec(0 - n) ELSE Dec(n)

\* the fgets loop: what a command prints comes in one piece (fewer than
\* 1024 characters) and is kept when it leaves room for the final 0
CapturedOutput(printed, output_size) ==
    IF strlen(printed) < output_size - 1 THEN printed ELSE <<>>

\* a command whose failed popen goes unnoticed
execute_command_SpawnIgnored(env, k, output_size) ==
    [status |-> env.rcs[k], output |-> CapturedOutput(env.output, output_size)]

\* exit status and captured output of the k-th command of a test run
execute_command(env, k, output_size) ==
    IF env.popen_ok[k]
    THEN [status |-> env.rcs[k], output |-> CapturedOutput(env.output, output_size)]
    ELSE [status |-> -1,
          output |-> snprintf(output_size, << <<"Failed to execute command: ", 27>> >>)]

\* the two temporary files of a built-in test run
SOURCE_FILE == "test.c"
BINARY_FILE == "test"

\* how a test run went: its result, the commands it ran, the temporary files
\* it created and those it removed
TestOutcome(result, commands, created, removed) ==
    [result |-> result, commands |-> commands, created |-> created, removed |-> removed]

HasMain(code_content) ==
    strstr(code_content, <<MAIN>>, 1) # 0 \/ strstr(code_content, <<VOID_MAIN>>, 1) # 0

\* test 3, after the binary has been run
ExecutionStage(size, exec) ==
    TestOutcome(
        IF exec.status = 0
        THEN TestResult(TRUE, TRUE, TRUE, <<>>, strncpy(exec.output, size - 1))
        ELSE TestResult(TRUE, TRUE, FALSE,
                 snprintf(size, << <<"Program exited with non-zero exit code: ", 40>> >>
                                   \o DecInt(exec.status)
                                   \o (IF exec.output # <<>>
                                       THEN <<NL, <<"Output:", 7>>, NL>> \o exec.output
                                       ELSE <<>>)),
                 <<>>),
        <<"syntax", "compile", "execute">>,
        {SOURCE_FILE, BINARY_FILE}, {BINARY_FILE, SOURCE_FILE})

\* after a successful compilation: the binary exists
CompiledStage(code_content, size, env) ==
    IF ~HasMain(code_content)
    THEN TestOutcome(
             TestResult(TRUE, TRUE, TRUE, <<>>,
                 << <<"No main function found - library code compiled successfully", 59>> >>),
             <<"syntax", "compile">>,
             {SOURCE_FILE, BINARY_FILE}, {BINARY_FILE, SOURCE_FILE})
    ELSE IF env.stage_allocs < 3
    THEN TestOutcome(
             TestResult(TRUE, TRUE, FALSE,
                 snprintf(size, << <<"Memory allocation failed for exec output", 40>> >>),
                 <<>>),
             <<"syntax", "compile">>,
             {SOURCE_FILE, BINARY_FILE}, {SOURCE_FILE})
    ELSE ExecutionStage(size, execute_command(env, 3, size))

\* test 2, after the compiler has been run
CompilationStage(code_content, size, env, compile) ==
    IF compile.status # 0
    THEN TestOutcome(
             TestResult(TRUE, FALSE, FALSE,
                 snprintf(size, << <<"Compilation failed:", 19>>, NL >> \o compile.output),
                 <<>>),
             <<"syntax", "compile">>, {SOURCE_FILE}, {SOURCE_FILE})
    ELSE CompiledStage(code_content, size, env)

\* after a successful syntax check
CheckedStage(code_content, size, env) ==
    IF env.stage_allocs < 2
    THEN TestOutcome(
             TestResult(TRUE, FALSE, FALSE,
                 snprintf(size, << <<"Memory allocation failed for compile output", 43>> >>),
                 <<>>),
             <<"syntax">>, {SOURCE_FILE}, {SOURCE_FILE})
    ELSE CompilationStage(code_content, size, env, execute_command(env, 2, size))

\* a syntax stage whose failure does not stop the run
SyntaxStage_NoShortCircuit(code_content, size, env, syntax) ==
    CheckedStage(code_content, size, env)

\* test 1, after the syntax check has been run
SyntaxStage(code_content, size, env, syntax) ==
    IF syntax.status # 0
    THEN TestOutcome(
             TestResult(FALSE, FALSE, FALSE,
                 snprintf(size, << <<"Syntax check failed:", 20>>, NL >> \o syntax.output),
                 <<>>),
             <<"syntax">>, {SOURCE_FILE}, {SOURCE_FILE})
    ELSE CheckedStage(code_content, size, env)

\* test_generated_code with what it does to the temporary files
BuiltinTestRun(code_content, size, env) ==
    IF ~env.alloc_ok THEN TestOutcome(NullTestResult, <<>>, {}, {})
    ELSE IF ~env.file_ok
    THEN TestOutcome(
             TestResult(FALSE, FALSE, FALSE,
                 snprintf(size,
                     << <<"Failed to create temporary file for problem: ", 45>> >>),
                 <<>>),
             <<>>, {}, {})
    ELSE IF env.stage_allocs < 1
    THEN TestOutcome(
             TestResult(FALSE, FALSE, FALSE,
                 snprintf(size, << <<"Memory allocation failed for syntax output", 42>> >>),
                 <<>>),
             <<>>, {SOURCE_FILE}, {SOURCE_FILE})
    ELSE SyntaxStage(code_content, size, env, execute_command(env, 1, size))

test_generated_code(code_content, cfg, env) ==
    BuiltinTestRun(code_content, cfg.max_response_size, env).result

ERROR_COLON == <<"error:", 6>>
SEGFAULT == <<"segmentation fault", 18>>

Contains(s, literals) == \E l \in literals : strstr(s, <<l>>, 1) # 0

\* a result that is read from the output before the exit code is looked at
CustomTestResult_OutputFirst(size, exit_code, out) ==
    IF Contains(out, {ERROR_COLON, <<"undefined reference", 19>>,
                      <<"fatal error", 11>>, <<"cannot find", 11>>})
    THEN TestResult(FALSE, FALSE, FALSE,
                    snprintf(size, << <<"Compilation failed: ", 20>> >> \o out), out)
    ELSE IF exit_code = 0 THEN TestResult(TRUE, TRUE, TRUE, <<>>, out)
    ELSE TestResult(TRUE, TRUE, FALSE,
                    snprintf(size, << <<"Test failed (exit code ", 23>> >> \o DecInt(exit_code)
                                      \o << <<"): ", 3>> >> \o out),
                    out)

\* a result for which a crash pattern is looked for before a compiler error
CustomTestResult_CrashFirst(size, exit_code, out) ==
    IF exit_code = 0 THEN TestResult(TRUE, TRUE, TRUE, <<>>, out)
    ELSE IF Contains(out, {SEGFAULT, <<"abort", 5>>, <<"core dumped", 11>>})
    THEN TestResult(TRUE, TRUE, FALSE,
                    snprintf(size, << <<"Runtime error: ", 15>> >> \o out), out)
    ELSE IF Contains(out, {ERROR_COLON, <<"undefined reference", 19>>,
                           <<"fatal error", 11>>, <<"cannot find", 11>>})
    THEN TestResult(FALSE, FALSE, FALSE,
                    snprintf(size, << <<"Compilation failed: ", 20>> >> \o out), out)
    ELSE TestResult(TRUE, TRUE, FALSE,
                    snprintf(size, << <<"Test failed (exit code ", 23>> >> \o DecInt(exit_code)
                                      \o << <<"): ", 3>> >> \o out),
                    out)

\* a result that takes a compiler error in the output for a failure of the
\* syntax stage alone
CustomTestResult_SyntaxAlone(size, exit_code, out) ==
    IF exit_code = 0 THEN TestResult(TRUE, TRUE, TRUE, <<>>, out)
    ELSE IF Contains(out, {ERROR_COLON, <<"undefined reference", 19>>,
                           <<"fatal error", 11>>, <<"cannot find", 11>>})
    THEN TestResult(FALSE, TRUE, FALSE,
                    snprintf(size, << <<"Compilation failed: ", 20>> >> \o out), out)
    ELSE IF Contains(out, {SEGFAULT, <<"abort", 5>>, <<"core dumped", 11>>})
    THEN TestResult(TRUE, TRUE, FALSE,
                    snprintf(size, << <<"Runtime error: ", 15>> >> \o out), out)
    ELSE TestResult(TRUE, TRUE, FALSE,
                    snprintf(size, << <<"Test failed (exit code ", 23>> >> \o DecInt(exit_code)
                                      \o << <<"): ", 3>> >> \o out),
                    out)

\* the result for the exit code and the captured output of the test command
CustomTestResult(size, exit_code, out) ==
    IF exit_code = 0 THEN TestResult(TRUE, TRUE, TRUE, <<>>, out)
    ELSE IF Contains(out, {ERROR_COLON, <<"undefined reference", 19>>,
                           <<"fatal error", 11>>, <<"cannot find", 11>>})
    THEN TestResult(FALSE, FALSE, FALSE,
                    snprintf(size, << <<"Compilation failed: ", 20>> >> \o out), out)
    ELSE IF Contains(out, {SEGFAULT, <<"abort", 5>>, <<"core dumped", 11>>})
    THEN TestResult(TRUE, TRUE, FALSE,
                    snprintf(size, << <<"Runtime error: ", 15>> >> \o out), out)
    ELSE TestResult(TRUE, TRUE, FALSE,
                    snprintf(size, << <<"Test failed (exit code ", 23>> >> \o DecInt(exit_code)
                                      \o << <<"): ", 3>> >> \o out),
                    out)

run_custom_test(test_command, cfg, env) ==
    IF ~env.alloc_ok THEN NullTestResult
    ELSE IF strlen(test_command) = 0
    THEN TestResult(FALSE, FALSE, FALSE,
                    snprintf(cfg.max_response_size,
                             << <<"Invalid test command or file path", 33>> >>),
                    <<>>)
    ELSE IF ~env.popen_ok[1]
    THEN TestResult(FALSE, FALSE, FALSE,
                    snprintf(cfg.max_response_size,
                             << <<"Failed to execute test command: ", 32>> >> \o test_command),
                    <<>>)
    ELSE CustomTestResult(cfg.max_response_size, env.rcs[1],
                          CapturedOutput(env.output, cfg.max_response_size))

\* the result update_solution_with_testing builds when the file for the
\* custom test cannot be written
WriteFailedResult(env, message) ==
    IF env.alloc_ok THEN TestResult(FALSE, FALSE, FALSE, message, <<>>)
    ELSE NullTestResult

EvolutionMode(cfg) == cfg.enable_evolution /\ strlen(cfg.evolution_file_path) > 0

\* the test that update_solution_with_testing runs on the new solution
TestSolution(cfg, code, env) ==
    IF strlen(cfg.test_command) > 0
    THEN IF EvolutionMode(cfg)
         THEN IF env.file_ok THEN run_custom_test(cfg.test_command, cfg, env)
              ELSE WriteFailedResult(env,
                       << <<"Failed to write evolved code to file: ", 38>> >>
                          \o cfg.evolution_file_path \o << <<".evolved", 8>> >>)
         ELSE IF env.file_ok THEN run_custom_test(cfg.test_command, cfg, env)
              ELSE WriteFailedResult(env,
                       << <<"Failed to create temporary file for custom testing", 50>> >>)
    ELSE test_generated_code(code, cfg, env)

NoSolution == [kind |-> "none", code |-> <<>>]

\* if (code_len < max_code_size - 1): copy, then trim trailing whitespace
ExtractCode(code, max_code_size) ==
    IF ~(strlen(code) < max_code_size - 1) THEN NoSolution
    ELSE [kind |-> "code", code |-> TrimTrailing(code)]

\* code_end = strstr(code_start, "```")
ExtractUpTo(response, max_code_size, code_start, code_end) ==
    IF code_end = 0 THEN NoSolution
    ELSE ExtractCode(SubSeq(response, code_start, code_end - 1), max_code_size)

\* code_start = strchr(code_start, '\n'), then code_start++
ExtractAfterNewline(response, max_code_size, newline) ==
    IF newline = 0 THEN [kind |-> "undefined", code |-> <<>>]
    ELSE ExtractUpTo(response, max_code_size, newline + 1,
                     strstr(response, <<FENCE>>, newline + 1))

\* code_start = strstr(response, "```c"), or "```"
ExtractAfterFence(response, max_code_size, fence) ==
    IF fence = 0 THEN NoSolution
    ELSE ExtractAfterNewline(response, max_code_size, strchr(response, NL, fence))

\* what update_solution_with_testing takes from a response: kind "code" with
\* the code, "none" when the solution is left alone, "undefined" when the
\* opening fence has no newline after it, so that strstr is handed NULL
ExtractSolution(response, max_code_size) ==
    ExtractAfterFence(response, max_code_size, FindFence(response))

\* the new solution and the result of its test
TestedSolution(cfg, code, env) ==
    [current_solution |-> code, last_test_result |-> TestSolution(cfg, code, env)]

\* update_solution_with_testing on a response whose code can be taken
update_solution_with_testing(cfg, response, env) ==
    TestedSolution(cfg, ExtractSolution(response, cfg.max_code_size).code, env)

(***************************************************************************)
(* Evaluation pipeline (evaluation.c)                                      *)
(*                                                                         *)
(* Scores are kept in hundredths of a point, the overall score and the     *)
(* fitness in thousandths of a point (fitness 1.0 = 100000), so that the   *)
(* weights 0.4/0.3/0.3 and the division by 100 stay in the integers.       *)
(***************************************************************************)
init_evaluation_criteria ==
    [min_performance_score |-> 7000, max_execution_time_ms |-> 1000,
     max_memory_usage_kb |-> 10240, target_throughput |-> 1000,
     min_test_coverage_percent |-> 80, max_cyclomatic_complexity |-> 10,
     enable_performance_profiling |-> TRUE, enable_quality_analysis |-> TRUE]

NoPerformance == [execution_time_ms |-> 0, memory_usage_kb |-> 0, throughput |-> 0]
NoQuality == [cyclomatic_complexity |-> 0, test_coverage_percent |-> 0,
              maintainability_index |-> 0]

\* a score that is cut at 100 only
Clamp_NoFloor(x) == IF x > 10000 THEN 10000 ELSE x

Clamp(x) == IF x < 0 THEN 0 ELSE IF x > 10000 THEN 10000 ELSE x

CorrectnessScore(t) ==
    (IF t.syntax_ok THEN 3333 ELSE 0) + (IF t.compilation_ok THEN 3333 ELSE 0)
        + (IF t.execution_ok THEN 3334 ELSE 0)

\* a performance score that is not cut to [0, 100]
PerformanceScore_Unclamped(criteria, p) ==
    LET s0 == 10000
        s1 == IF criteria.max_execution_time_ms > 0
                 /\ p.execution_time_ms > criteria.max_execution_time_ms
              THEN s0 - ((p.execution_time_ms - criteria.max_execution_time_ms) * 5000)
                           \div criteria.max_execution_time_ms
              ELSE s0
        s2 == IF criteria.max_memory_usage_kb > 0
                 /\ p.memory_usage_kb > criteria.max_memory_usage_kb
              THEN s1 - ((p.memory_usage_kb - criteria.max_memory_usage_kb) * 3000)
                           \div criteria.max_memory_usage_kb
              ELSE s1
        s3 == IF criteria.target_throughput > 0 /\ p.throughput < criteria.target_throughput
              THEN (s2 * p.throughput) \div criteria.target_throughput
              ELSE s2
    IN s3

PerformanceScore(criteria, p) ==
    LET s0 == 10000
        s1 == IF criteria.max_execution_time_ms > 0
                 /\ p.execution_time_ms > criteria.max_execution_time_ms
              THEN s0 - ((p.execution_time_ms - criteria.max_execution_time_ms) * 5000)
                           \div criteria.max_execution_time_ms
              ELSE s0
        s2 == IF criteria.max_memory_usage_kb > 0
                 /\ p.memory_usage_kb > criteria.max_memory_usage_kb
              THEN s1 - ((p.memory_usage_kb - criteria.max_memory_usage_kb) * 3000)
                           \div criteria.max_memory_usage_kb
              ELSE s1
        s3 == IF criteria.target_throughput > 0 /\ p.throughput < criteria.target_throughput
              THEN (s2 * p.throughput) \div criteria.target_throughput
              ELSE s2
    IN Clamp(s3)

QualityScore(criteria, q) ==
    LET s0 == 10000
        s1 == IF criteria.max_cyclomatic_complexity > 0
                 /\ q.cyclomatic_complexity > criteria.max_cyclomatic_complexity
              THEN s0 - 2000 ELSE s0
        s2 == IF criteria.min_test_coverage_percent > 0
                 /\ q.test_coverage_percent < criteria.min_test_coverage_percent
              THEN (s1 * q.test_coverage_percent) \div criteria.min_test_coverage_percent
              ELSE s1
        s3 == IF q.maintainability_index < 70
              THEN (s2 * q.maintainability_index) \div 70 ELSE s2
    IN Clamp(s3)

\* correctness 40%, performance 30%, quality 30%, in thousandths of a point
calculate_overall_score(r) ==
    4 * r.correctness_score + 3 * r.performance_score + 3 * r.quality_score

\* criteria that are checked without the correctness of the test result
evaluate_against_criteria_NoCorrectness(r, criteria) ==
    /\ ~(r.performance_score < criteria.min_performance_score)
    /\ ~(criteria.max_execution_time_ms > 0
           /\ r.performance.execution_time_ms > criteria.max_execution_time_ms)
    /\ ~(criteria.max_memory_usage_kb > 0
           /\ r.performance.memory_usage_kb > criteria.max_memory_usage_kb)
    /\ ~(criteria.min_test_coverage_percent > 0
           /\ r.quality.test_coverage_percent < criteria.min_test_coverage_percent)
    /\ ~(criteria.max_cyclomatic_complexity > 0
           /\ r.quality.cyclomatic_complexity > criteria.max_cyclomatic_complexity)

evaluate_against_criteria(r, criteria) ==
    /\ ~(r.performance_score < criteria.min_performance_score)
    /\ ~(criteria.max_execution_time_ms > 0
           /\ r.performance.execution_time_ms > criteria.max_execution_time_ms)
    /\ ~(criteria.max_memory_usage_kb > 0
           /\ r.performance.memory_usage_kb > criteria.max_memory_usage_kb)
    /\ ~(criteria.min_test_coverage_percent > 0
           /\ r.quality.test_coverage_percent < criteria.min_test_coverage_percent)
    /\ ~(criteria.max_cyclomatic_complexity > 0
           /\ r.quality.cyclomatic_complexity > criteria.max_cyclomatic_complexity)
    /\ ~has_code_errors(r.test_result)

\* env: the environment of the test run (test) and what measure_performance
\* and analyze_code_quality report (performance, quality)
\* the three scores of the test result t
ScoredResult(criteria, t, env) ==
    LET profiled == criteria.enable_performance_profiling /\ t.compilation_ok
        analyzed == criteria.enable_quality_analysis
    IN [test_result |-> t,
        correctness_score |-> CorrectnessScore(t),
        performance |-> IF profiled THEN env.performance ELSE NoPerformance,
        performance_score |->
            IF profiled THEN PerformanceScore(criteria, env.performance)
            ELSE IF t.execution_ok THEN 7500 ELSE 0,
        quality |-> IF analyzed THEN env.quality ELSE NoQuality,
        quality_score |->
            IF analyzed THEN QualityScore(criteria, env.quality) ELSE 7500]

\* the texts of generate_evaluation_report and of
\* generate_improvement_recommendations, each in a buffer of its own
EVALUATION_REPORT == << <<"=== COMPREHENSIVE CODE EVALUATION REPORT ===", 44>> >>
RECOMMENDATIONS == << <<"=== IMPROVEMENT RECOMMENDATIONS ===", 35>> >>

\* the overall score, the verdict and the two reports, added to the scored
\* result
JudgedResult(criteria, scored) ==
    [test_result |-> scored.test_result,
     correctness_score |-> scored.correctness_score,
     performance |-> scored.performance,
     performance_score |-> scored.performance_score,
     quality |-> scored.quality,
     quality_score |-> scored.quality_score,
     overall_score |-> calculate_overall_score(scored),
     passed_criteria |-> evaluate_against_criteria(scored, criteria),
     detailed_report |-> EVALUATION_REPORT,
     recommendations |-> RECOMMENDATIONS]

evaluate_code_comprehensive(cfg, code_content, env) ==
    JudgedResult(cfg.eval_criteria,
                 ScoredResult(cfg.eval_criteria,
                              IF strlen(cfg.test_command) > 0
                              THEN run_custom_test(cfg.test_command, cfg, env.test)
                              ELSE test_generated_code(code_content, cfg, env.test),
                              env))

\* the history entry is a shallow copy of the result
save_evaluation_history(evolution, r) ==
    [evolution EXCEPT !.evaluation_history = Append(@, r)]

\* the scan of get_best_evaluation from entry i on, best being the index of
\* the best entry so far
RECURSIVE BestFrom(_, _, _)
BestFrom(history, i, best) ==
    IF i > Len(history) THEN best
    ELSE BestFrom(history, i + 1,
                  IF history[i].overall_score > history[best].overall_score THEN i
                  ELSE best)

\* a best entry that is the last of those with the highest score
get_best_evaluation_LastOfTies(evolution) ==
    LET history == evolution.evaluation_history
        top == {i \in 1..Len(history) :
                   \A j \in 1..Len(history) :
                       history[j].overall_score <= history[i].overall_score}
    IN IF history = <<>> THEN 0 ELSE CHOOSE i \in top : \A j \in top : j <= i

\* the index of the entry get_best_evaluation points to, 0 for NULL
get_best_evaluation(evolution) ==
    IF Len(evolution.evaluation_history) = 0 THEN 0
    ELSE BestFrom(evolution.evaluation_history, 2, 1)

\* a pointer to a buffer that has been freed
FREED == << <<"FREED", 0>> >>

\* cleanup_evaluation_result frees the two strings of the test result, the
\* report and the recommendations; the copy in the history keeps the flags
\* and the scores, and its four pointers dangle
cleanup_evaluation_result(evolution) ==
    LET n == Len(evolution.evaluation_history)
    IN [evolution EXCEPT !.evaluation_history[n].test_result.error_message = FREED,
                         !.evaluation_history[n].test_result.output = FREED,
                         !.evaluation_history[n].detailed_report = FREED,
                         !.evaluation_history[n].recommendations = FREED]

(***************************************************************************)
(* Evolution cycle (evolve_code_regions)                                   *)
(***************************************************************************)
HasMarker(code) == strstr(code, <<START>>, 1) # 0

NoScore == -1

\* for (i = 0; i < region_count; i++) regions[i].fitness_score = fitness
SetFitness_Skipped(evolution, fitness) == evolution

SetFitness(evolution, fitness) ==
    [evolution EXCEPT !.regions =
        [i \in 1..Len(evolution.regions) |->
            [evolution.regions[i] EXCEPT !.fitness_score = fitness]]]

\* a fitness that counts the execution stage alone
TestFitness_ExecutionOnly(t) == IF t.execution_ok THEN 100000 ELSE 0

\* 0.3 + 0.3 + 0.4 for the three stages of a custom test
TestFitness(t) ==
    (IF t.syntax_ok THEN 30000 ELSE 0) + (IF t.compilation_ok THEN 30000 ELSE 0)
        + (IF t.execution_ok THEN 40000 ELSE 0)

\* without a test command: 0.1 when the evolution file can be opened
evaluate_evolution_fitness(cfg, env) ==
    IF strlen(cfg.test_command) > 0 THEN TestFitness(run_custom_test(cfg.test_command, cfg, env.test))
    ELSE IF env.file_exists THEN 10000 ELSE 0

\* env: test (the custom test run; file_ok: the evolved file is written),
\* file_exists, eval (the environment of the comprehensive evaluation).
\* The result tells whether the cycle ran, the fitness it gave (NoScore when
\* it gave none) and whether an evaluation was handed to the history.
\* the fitness of the first scoring of a cycle, NoScore when the evolved
\* file of a custom test cannot be written
FirstScore(cfg, env, custom_result) ==
    IF strlen(cfg.test_command) > 0
    THEN (IF env.test.file_ok THEN TestFitness(custom_result) ELSE NoScore)
    ELSE evaluate_evolution_fitness(cfg, env)

ApplyScore(evolution, score) ==
    IF score = NoScore THEN evolution ELSE SetFitness(evolution, score)

\* the comprehensive evaluation of a cycle: the fitness becomes the overall
\* score, the result goes to the history and is cleaned up
EvaluationStage(cfg, after_test, last_result, eval_result) ==
    [evolution |-> IF cfg.save_evaluation_history
                   THEN cleanup_evaluation_result(
                            save_evaluation_history(
                                SetFitness(after_test, eval_result.overall_score),
                                eval_result))
                   ELSE SetFitness(after_test, eval_result.overall_score),
     last_test_result |-> last_result,
     ran |-> TRUE,
     score |-> eval_result.overall_score,
     saved |-> cfg.save_evaluation_history]

\* the cycle after its first scoring
ScoredCycle(cfg, solution, env, after_test, first_score, last_result) ==
    IF cfg.enable_comprehensive_evaluation /\ strlen(solution) > 0
    THEN EvaluationStage(cfg, after_test, last_result,
                         evaluate_code_comprehensive(cfg, solution, env.eval))
    ELSE [evolution |-> after_test, last_test_result |-> last_result, ran |-> TRUE,
          score |-> first_score, saved |-> FALSE]

\* the cycle after the regions are parsed and the custom test has run
TestedCycle(cfg, solution, test_result, env, parsed, first_score, custom_result) ==
    ScoredCycle(cfg, solution, env, ApplyScore(parsed, first_score), first_score,
                IF strlen(cfg.test_command) > 0 /\ env.test.file_ok
                THEN custom_result ELSE test_result)

ParsedCycle(cfg, solution, test_result, env, parsed, custom_result) ==
    TestedCycle(cfg, solution, test_result, env, parsed,
                FirstScore(cfg, env, custom_result), custom_result)

evolve_code_regions(cfg, evolution, solution, test_result, env) ==
    IF ~evolution.evolution_enabled \/ ~EvolutionMode(cfg)
    THEN [evolution |-> evolution, last_test_result |-> test_result, ran |-> FALSE,
          score |-> NoScore, saved |-> FALSE]
    ELSE ParsedCycle(cfg, solution, test_result, env,
                     IF strlen(solution) > 0
                     THEN parse_evolution_regions(evolution, solution) ELSE evolution,
                     run_custom_test(cfg.test_command, cfg, env.test))

VARIABLES
    pc,                 \* position in run_collaboration, "api" for direct calls
    config,             \* config_t, fixed for a run
    iteration,          \* the loop variable of run_collaboration
    total_iterations,
    conv_iterations,    \* conv.iterations
    messages,           \* conv.messages[0 .. message_count-1]
    reasoning_response, \* cleaned_reasoning_response, NULL outside its scope
    current_solution,   \* conv.current_solution
    last_test_result,   \* conv.last_test_result
    evolution,          \* conv.evolution, or the context of the direct calls
    result,             \* return value of run_collaboration, "none" before
    api_ops,            \* number of direct region-engine calls made
    last_op,            \* the latest direct call and the context it found
    prev_op,            \* the direct call before it
    obs                 \* what an observer of the run has seen so far

vars == <<pc, config, iteration, total_iterations, conv_iterations, messages,
          reasoning_response, current_solution, last_test_result, evolution,
          result, api_ops, last_op, prev_op, obs>>

runVars == <<config, iteration, total_iterations, conv_iterations, messages,
             reasoning_response, current_solution, last_test_result, result, obs>>

apiVars == <<api_ops, last_op, prev_op>>

(***************************************************************************)
(* Inputs of the direct region-engine calls                                *)
(***************************************************************************)
DescA == <<Ch("a")>>
DescB == <<Ch("b")>>
DescC == <<Ch("c")>>
DescRegion1 == << <<"region_", 7>>, Ch("1") >>
DescLong == <<Ch("a"), <<"z", LongPad>> >>
BodyX == <<Ch("x"), NL>>
BodyY == <<Ch("y"), NL>>

\* a start marker with a description, a body and an end marker, each on a line
RegionText(desc, body) ==
    <<START>> \o (IF desc = <<>> THEN <<>> ELSE <<COLON, SP>> \o desc)
              \o <<NL>> \o body \o <<END, NL>>

RECURSIVE Repeat(_, _)
Repeat(s, n) ==
    IF n = 0 THEN <<>>
    ELSE IF n = 1 THEN s
    ELSE Repeat(s, n \div 2) \o Repeat(s, n - (n \div 2))

SrcPlain == <<Ch("x"), NL, Ch("y"), NL>>
SrcOne == <<Ch("h"), NL>> \o RegionText(DescA, BodyX) \o <<Ch("t"), NL>>
SrcTwo == RegionText(DescA, BodyX) \o <<NL>> \o RegionText(DescB, BodyY)
SrcDup == RegionText(DescA, BodyX) \o RegionText(DescA, BodyY)
SrcAnon == RegionText(<<>>, BodyX) \o RegionText(DescRegion1, BodyY)
SrcLong == RegionText(DescLong \o <<SP>>, BodyX)
\* a start marker inside an open region, an end marker with no region open,
\* and a well-formed region behind them
SrcNested == <<START, COLON, SP>> \o DescA \o <<NL, START, COLON, SP>> \o DescB
                 \o <<NL>> \o BodyX \o <<END, NL, END, NL>> \o RegionText(DescC, BodyY)
SrcMany == Repeat(RegionText(<<>>, <<>>), ManyRegions)
\* a region that ends the text, no newline after the end marker
SrcLoop == <<START, COLON, SP, <<"loop", 4>>, NL, <<"for(;;){}", 9>>, NL, END>>
\* a region with an empty line in its body
SrcGap == RegionText(DescC, <<Ch("x"), NL, NL, Ch("y"), NL>>)
\* an end marker and no start marker
SrcEndOnly == <<Ch("x"), NL, END, NL>>

Sources ==
    {SrcPlain, SrcOne, SrcTwo, SrcDup, SrcAnon, SrcLong, SrcNested, SrcMany, SrcLoop,
     SrcGap, SrcEndOnly}

\* the codes that are assembled
AssembleSources == {SrcPlain, SrcOne, SrcTwo, SrcMany, SrcLoop, SrcEndOnly}

\* the byte in front of a buffer matters when a region has an empty content
WildBytes(ctx) ==
    IF \E r \in 1..Len(ctx.regions) : ctx.regions[r].content = <<>>
    THEN BOOLEAN ELSE {FALSE}
Descriptions == {DescA, DescB, DescC, DescRegion1, DescLong}
Contents == {BodyX, BodyY}

\* a direct call: its arguments, the context it found (pre), the value it
\* returned (ret, 0 for a void call) and the text it returned (out)
NoOp ==
    [op |-> "none", desc |-> <<>>, content |-> <<>>, pre |-> init_code_evolution,
     ret |-> 0, out |-> NULL]

(***************************************************************************)
(* Direct calls of the region engine on one context                        *)
(***************************************************************************)
ApiParse ==
    /\ pc = "api"
    /\ api_ops < MaxApiOps
    /\ \E code \in Sources :
          /\ evolution' = parse_evolution_regions(evolution, code)
          /\ last_op' = [op |-> "parse", desc |-> <<>>, content |-> code, pre |-> evolution,
                         ret |-> ParseReturn(code, evolution'), out |-> NULL]
    /\ prev_op' = last_op
    /\ api_ops' = api_ops + 1
    /\ UNCHANGED <<pc, runVars>>

ApiUpdate ==
    /\ pc = "api"
    /\ api_ops < MaxApiOps
    /\ \E d \in Descriptions, c \in Contents :
          /\ evolution' = update_evolution_region(evolution, d, c)
          /\ last_op' = [op |-> "update", desc |-> d, content |-> c, pre |-> evolution,
                         ret |-> 0, out |-> NULL]
    /\ prev_op' = last_op
    /\ api_ops' = api_ops + 1
    /\ UNCHANGED <<pc, runVars>>

ApiAssemble ==
    /\ pc = "api"
    /\ api_ops < MaxApiOps
    /\ \E code \in AssembleSources, wild \in WildBytes(evolution) :
          last_op' = [op |-> "assemble", desc |-> <<>>, content |-> code, pre |-> evolution,
                      ret |-> 0, out |-> assemble_evolved_code(evolution, code, wild)]
    /\ prev_op' = last_op
    /\ api_ops' = api_ops + 1
    /\ UNCHANGED <<pc, evolution, runVars>>

Path == <<Ch("f")>>                     \* a non-empty evolution_file_path
Command == << <<"cmd", 3>> >>           \* a non-empty test_command

\* config_t; evolution_file is what read_evolution_file finds at the path
\* (NULL when the file cannot be read)
ApiConfig ==
    [iterations |-> 1, max_code_size |-> ModelCodeSize,
     max_response_size |-> ModelResponseSize, max_conversation_turns |-> 1,
     enable_evolution |-> FALSE, evolution_file_path |-> <<>>, evolution_file |-> NULL,
     test_command |-> <<>>, enable_comprehensive_evaluation |-> FALSE,
     save_evaluation_history |-> FALSE, eval_criteria |-> init_evaluation_criteria]

\* event: the failure met by an agent turn; exit: why the loop was left;
\* tested, evolved, score: whether the test pipeline and the evolution cycle
\* ran in the current iteration, and the fitness the cycle gave;
\* tested_solution: the text of the latest test run; saved: evaluations
\* handed to the history; solution_file: the solution file was written;
\* calls: the agents call_ai_model was called for in the current iteration
NoObs ==
    [event |-> "none", exit |-> "none", tested |-> FALSE, evolved |-> FALSE,
     score |-> NoScore, tested_solution |-> NULL, saved |-> 0, solution_file |-> FALSE,
     calls |-> <<>>]

RegionInit ==
    /\ pc = "api"
    /\ config = ApiConfig
    /\ iteration = 0
    /\ total_iterations = 0
    /\ conv_iterations = 0
    /\ messages = <<>>
    /\ reasoning_response = NULL
    /\ current_solution = <<>>
    /\ last_test_result = ZeroTestResult
    /\ evolution = init_code_evolution
    /\ result = "none"
    /\ api_ops = 0
    /\ last_op = NoOp
    /\ prev_op = NoOp
    /\ obs = NoObs

RegionNext == ApiParse \/ ApiUpdate \/ ApiAssemble

RegionSpec == RegionInit /\ [][RegionNext]_vars

(***************************************************************************)
(* Region engine: properties                                               *)
(***************************************************************************)
UniqueDescriptions(e) ==
    \A i, j \in 1..Len(e.regions) :
        e.regions[i].description = e.regions[j].description => i = j

\* C8: in every reachable context no two regions have the same description
C8_DescriptionsUnique == UniqueDescriptions(evolution)

\* the latest direct call was update(d, c) on a context that had a region d
UpdatedExisting(o) == o.op = "update" /\ FindRegion(o.pre, o.desc) # 0

\* the latest direct call was update(d, c) on a context without a region d
UpdatedMissing(o) == o.op = "update" /\ FindRegion(o.pre, o.desc) = 0

SameUpdate(o1, o2) ==
    o1.op = "update" /\ o2.op = "update" /\ o1.desc = o2.desc /\ o1.content = o2.content

\* C9: update(ctx, d, c) on a context that contains a region d keeps the
\* region count, makes the lookup of d return c and adds 1 to the generation
\* of that region; a second identical update leaves content c and has added 2
C9_UpdateExisting ==
    UpdatedExisting(last_op) =>
        LET i == FindRegion(last_op.pre, last_op.desc) IN
        /\ Len(evolution.regions) = Len(last_op.pre.regions)
        /\ LookupContent(evolution, last_op.desc) = last_op.content
        /\ evolution.regions[i].generation = last_op.pre.regions[i].generation + 1
        /\ (SameUpdate(prev_op, last_op) /\ UpdatedExisting(prev_op)) =>
              /\ evolution.regions[i].content = last_op.content
              /\ evolution.regions[i].generation = prev_op.pre.regions[i].generation + 2

C9_Witness ==
    /\ UpdatedExisting(last_op)
    /\ UpdatedExisting(prev_op)
    /\ SameUpdate(prev_op, last_op)
    /\ Len(evolution.regions) >= 2

NewRegion(d, c) ==
    [content |-> c, description |-> d, start_line |-> 0, end_line |-> 0,
     generation |-> 1, fitness_score |-> 0]

AppendedExactly(o) ==
    /\ evolution.regions = Append(o.pre.regions, NewRegion(o.desc, o.content))
    /\ LookupContent(evolution, o.desc) = o.content

\* C10 as stated: update(ctx, d, c) on any context without a region d appends
\* one region (d, c, generation 1) at the end, and the lookup of d returns c
C10_AppendAlways == UpdatedMissing(last_op) => AppendedExactly(last_op)

\* C10 as amended: the same for a context with fewer than
\* MAX_EVOLUTION_REGIONS regions and a d of at most 255 characters; a full
\* context is left as it was
C10_AppendWhenRoom ==
    UpdatedMissing(last_op) =>
        /\ (/\ Len(last_op.pre.regions) < MAX_EVOLUTION_REGIONS
            /\ strlen(last_op.desc) < MAX_EVOLUTION_DESCRIPTION) => AppendedExactly(last_op)
        /\ Len(last_op.pre.regions) >= MAX_EVOLUTION_REGIONS => evolution = last_op.pre

C10_Witness ==
    /\ UpdatedMissing(last_op)
    /\ Len(last_op.pre.regions) \in 1..(MAX_EVOLUTION_REGIONS - 1)
    /\ strlen(last_op.desc) < MAX_EVOLUTION_DESCRIPTION
    /\ Len(evolution.regions) = Len(last_op.pre.regions) + 1


(***************************************************************************)
(* run_collaboration (main.c): the inputs of a run                         *)
(***************************************************************************)
RespPlain == FENCE_C \o <<NL, Ch("x"), NL, FENCE>>
RespMarked == FENCE_C \o <<NL>> \o RegionText(DescA, BodyX) \o <<FENCE>>
RespBare == <<Ch("x")>>                                 \* no fence at all
RespOpen == FENCE_C \o <<NL, Ch("x")>>                  \* no closing fence
RespBig == FENCE_C \o <<NL, <<"z", ModelCodeSize>>, NL, FENCE>>
RespInline == FENCE_C \o <<SP, Ch("x"), FENCE>>         \* no newline at all

FastResponses == {RespBare}
ReasoningResponses == {RespPlain, RespMarked, RespOpen, RespBig, RespInline}
FixResponses == {RespPlain, RespMarked, RespBig}

TestEnv(alloc_ok, file_ok, popen_ok, rcs, output) ==
    [alloc_ok |-> alloc_ok, file_ok |-> file_ok,
     popen_ok |-> <<popen_ok, popen_ok, popen_ok>>, stage_allocs |-> 3,
     rcs |-> rcs, output |-> output]

EnvOk == TestEnv(TRUE, TRUE, TRUE, <<0, 0, 0>>, <<Ch("o")>>)

\* the test environments of a run: all well, no file, no process for the
\* commands, a failing first command that prints a compiler error or a crash
TestEnvs ==
    {EnvOk,
     TestEnv(TRUE, FALSE, TRUE, <<0, 0, 0>>, <<>>),
     TestEnv(TRUE, TRUE, FALSE, <<0, 0, 0>>, <<>>),
     TestEnv(TRUE, TRUE, TRUE, <<1, 0, 0>>, <<ERROR_COLON>>),
     TestEnv(TRUE, TRUE, TRUE, <<1, 0, 0>>, <<SEGFAULT>>)}

\* the test environments of a comprehensive evaluation
EvalTestEnvs == {EnvOk, TestEnv(TRUE, TRUE, TRUE, <<1, 0, 0>>, <<ERROR_COLON>>)}

Performances ==
    {[execution_time_ms |-> 500, memory_usage_kb |-> 1024, throughput |-> 1000],
     [execution_time_ms |-> 1500, memory_usage_kb |-> 20480, throughput |-> 500]}

Qualities ==
    {[cyclomatic_complexity |-> 5, test_coverage_percent |-> 80,
      maintainability_index |-> 70],
     [cyclomatic_complexity |-> 12, test_coverage_percent |-> 40,
      maintainability_index |-> 35]}

\* the environments of one evolution cycle that differ for this configuration
EvolveEnvs(cfg) ==
    LET custom == strlen(cfg.test_command) > 0
        comprehensive == cfg.enable_comprehensive_evaluation
        criteria == cfg.eval_criteria
    IN [test : IF custom THEN TestEnvs ELSE {EnvOk},
        file_exists : IF custom THEN {TRUE} ELSE BOOLEAN,
        eval : [test : IF comprehensive THEN EvalTestEnvs ELSE {EnvOk},
                performance : IF comprehensive /\ criteria.enable_performance_profiling
                              THEN Performances ELSE {NoPerformance},
                quality : IF comprehensive /\ criteria.enable_quality_analysis
                          THEN Qualities ELSE {NoQuality}]]

NoProfiling ==
    [init_evaluation_criteria EXCEPT !.enable_performance_profiling = FALSE,
                                     !.enable_quality_analysis = FALSE]

RunConfig(n, evo, path, file, cmd, comprehensive, save, criteria) ==
    [ApiConfig EXCEPT !.iterations = n, !.enable_evolution = evo,
                      !.evolution_file_path = path, !.evolution_file = file,
                      !.test_command = cmd,
                      !.enable_comprehensive_evaluation = comprehensive,
                      !.save_evaluation_history = save, !.eval_criteria = criteria]

\* runs without evolution (builtin test, custom test, evaluation switched
\* on), with an evolution file that is unreadable or has no marker, and with
\* a marked evolution file under each way of scoring a cycle
Configs ==
    UNION {{RunConfig(n, FALSE, <<>>, NULL, <<>>, FALSE, FALSE, NoProfiling),
            RunConfig(n, FALSE, <<>>, NULL, Command, FALSE, FALSE, NoProfiling),
            RunConfig(n, FALSE, Path, SrcOne, <<>>, TRUE, TRUE, NoProfiling),
            RunConfig(n, TRUE, Path, NULL, <<>>, FALSE, FALSE, NoProfiling),
            RunConfig(n, TRUE, Path, SrcPlain, Command, FALSE, FALSE, NoProfiling),
            RunConfig(n, TRUE, Path, SrcOne, <<>>, FALSE, FALSE, NoProfiling),
            RunConfig(n, TRUE, Path, SrcOne, Command, FALSE, FALSE, NoProfiling),
            RunConfig(n, TRUE, Path, SrcOne, <<>>, TRUE, TRUE, NoProfiling),
            RunConfig(n, TRUE, Path, SrcOne, Command, TRUE, TRUE, NoProfiling),
            RunConfig(n, TRUE, Path, SrcOne, <<>>, TRUE, FALSE, init_evaluation_criteria)}
           : n \in 1..MaxIterations}

(***************************************************************************)
(* run_collaboration: the steps of a run                                   *)
(***************************************************************************)
max_error_iterations(cfg) == cfg.iterations * 3

\* a loop that goes on only while the latest test result has a failing stage
LoopCondition_ErrorsOnly(i, cfg, test_result) == has_code_errors(test_result)

\* a loop that goes on whatever the test result is
LoopCondition_Always(i, cfg, test_result) == TRUE

\* the condition of the for loop
LoopCondition(i, cfg, test_result) == i < cfg.iterations \/ has_code_errors(test_result)

\* the safety check at the head of the loop body
CapReached_Late(total, cfg) == total > max_error_iterations(cfg)

CapReached(total, cfg) == total >= max_error_iterations(cfg)

\* the break at the end of the loop body
ErrorsResolved_AnyIteration(i, cfg, solution, test_result) ==
    strlen(solution) > 0 /\ ~has_code_errors(test_result)

ErrorsResolved(i, cfg, solution, test_result) ==
    strlen(solution) > 0 /\ ~has_code_errors(test_result) /\ i >= cfg.iterations

\* the text of a prompt plays no part in the model: it is NULL when an
\* allocation of generate_agent_prompt fails
generate_agent_prompt(alloc_ok) == IF alloc_ok THEN <<Ch("p")>> ELSE NULL

\* the three tests of an agent turn that end in return -1
TurnFails_NoValidationTest(prompt, response, cleaned) ==
    prompt = NULL \/ response = NULL

TurnFails(prompt, response, cleaned) ==
    prompt = NULL \/ response = NULL \/ cleaned = NULL

\* what went wrong in an agent turn, as the environment saw it
TurnEvent(prompt, response, cleaned) ==
    IF prompt = NULL THEN "prompt"
    ELSE IF response = NULL THEN "call"
    ELSE IF cleaned = NULL THEN "validate"
    ELSE "none"

Init ==
    /\ pc = "start"
    /\ config \in Configs
    /\ iteration = 0
    /\ total_iterations = 0
    /\ conv_iterations = 0
    /\ messages = <<>>
    /\ reasoning_response = NULL
    /\ current_solution = <<>>
    /\ last_test_result = ZeroTestResult
    /\ evolution = init_code_evolution
    /\ result = "none"
    /\ api_ops = 0
    /\ last_op = NoOp
    /\ prev_op = NoOp
    /\ obs = NoObs

\* lines 9-41: the evolution file is read and parsed
Start ==
    /\ pc = "start"
    /\ LET file == config.evolution_file
           read == EvolutionMode(config) /\ file # NULL
           parsed == parse_evolution_regions(evolution, file)
           found == read /\ Len(parsed.regions) > 0
       IN /\ evolution' = IF ~read THEN evolution
                          ELSE IF found THEN [parsed EXCEPT !.evolution_enabled = TRUE]
                          ELSE parsed
          /\ current_solution' = IF found /\ strlen(file) < config.max_code_size
                                 THEN file ELSE current_solution
    /\ pc' = "loop"
    /\ UNCHANGED <<config, iteration, total_iterations, conv_iterations, messages,
                   reasoning_response, last_test_result, result, obs, apiVars>>

\* the first agent turn of an iteration in which every iteration is normal
FirstTurn_AlwaysNormal(i, cfg) == "fast"

\* line 64: a normal iteration starts with the fast agent, an error fix
\* iteration with the reasoning agent
FirstTurn(i, cfg) == IF i < cfg.iterations THEN "fast" ELSE "fix"

\* the loop condition, the safety check and the counters of a new iteration
LoopHead ==
    /\ pc = "loop"
    /\ IF ~LoopCondition(iteration, config, last_test_result)
       THEN /\ pc' = "after_loop"
            /\ obs' = [obs EXCEPT !.exit = "condition"]
            /\ UNCHANGED <<conv_iterations, total_iterations>>
       ELSE IF CapReached(total_iterations, config)
       THEN /\ pc' = "after_loop"
            /\ obs' = [obs EXCEPT !.exit = "cap"]
            /\ UNCHANGED <<conv_iterations, total_iterations>>
       ELSE /\ conv_iterations' = iteration + 1
            /\ total_iterations' = total_iterations + 1
            /\ UNCHANGED obs
            /\ pc' = FirstTurn(iteration, config)
    /\ UNCHANGED <<config, iteration, messages, reasoning_response, current_solution,
                   last_test_result, evolution, result, apiVars>>

\* one agent turn: prompt, call, validation, add_message
AgentTurn(sender, responses, next) ==
    \E prompt_ok \in BOOLEAN, alloc_ok \in BOOLEAN, response \in responses \cup {NULL} :
        LET prompt == generate_agent_prompt(prompt_ok)
            cleaned == validate_and_clean_response(response, alloc_ok)
        IN /\ obs' = [obs EXCEPT !.event = TurnEvent(prompt, response, cleaned),
                                 !.calls = IF prompt # NULL THEN Append(@, sender) ELSE @]
           /\ IF TurnFails(prompt, response, cleaned)
              THEN /\ pc' = "returned"
                   /\ result' = "-1"
                   /\ UNCHANGED <<messages, reasoning_response>>
              ELSE /\ pc' = next
                   /\ result' = result
                   /\ messages' = add_message(messages, config.max_conversation_turns * 2,
                                              config.max_response_size, sender, cleaned)
                   /\ reasoning_response' = IF sender = "AGENT_REASONING" THEN cleaned
                                            ELSE reasoning_response
           /\ UNCHANGED <<config, iteration, total_iterations, conv_iterations,
                          current_solution, last_test_result, evolution, apiVars>>

FastTurn == pc = "fast" /\ AgentTurn("AGENT_FAST", FastResponses, "reasoning")

ReasoningTurn == pc = "reasoning" /\ AgentTurn("AGENT_REASONING", ReasoningResponses, "update")

\* the only turn of an ERROR_FIX iteration
FixTurn == pc = "fix" /\ AgentTurn("AGENT_REASONING", FixResponses, "update")

\* the new solution and its test result are stored
Tested(u) ==
    /\ current_solution' = u.current_solution
    /\ last_test_result' = u.last_test_result
    /\ obs' = [obs EXCEPT !.tested = TRUE, !.tested_solution = u.current_solution]

\* what the call does with a response of this kind, and where the run goes
Updated(kind, next) ==
    \/ /\ kind = "code"
       /\ \E env \in TestEnvs :
             Tested(update_solution_with_testing(config, reasoning_response, env))
       /\ pc' = next
    \/ /\ kind \in {"none", "undefined"}
       /\ pc' = next
       /\ UNCHANGED <<current_solution, last_test_result, obs>>
    \/ /\ kind = "undefined"
       /\ pc' = "crashed"
       /\ UNCHANGED <<current_solution, last_test_result, obs>>

\* update_solution_with_testing on the reasoning response; a response whose
\* opening fence has no newline after it hands NULL to strstr, which either
\* stops the process or finds nothing
UpdateSolution ==
    /\ pc = "update"
    /\ Updated(ExtractSolution(reasoning_response, config.max_code_size).kind,
               IF iteration < config.iterations THEN "evolve" ELSE "progress")
    /\ UNCHANGED <<config, iteration, total_iterations, conv_iterations, messages,
                   reasoning_response, evolution, result, apiVars>>

\* what a cycle leaves in the conversation
Evolved(r) ==
    /\ evolution' = r.evolution
    /\ last_test_result' = r.last_test_result
    /\ obs' = [obs EXCEPT !.evolved = r.ran, !.score = r.score,
                          !.saved = @ + (IF r.saved THEN 1 ELSE 0)]

\* lines 157-169: the evolution cycle of a NORMAL iteration
Evolve ==
    /\ pc = "evolve"
    /\ IF HasMarker(current_solution)
       THEN \E env \in EvolveEnvs(config) :
               Evolved(evolve_code_regions(config, evolution, current_solution,
                                           last_test_result, env))
       ELSE UNCHANGED <<evolution, last_test_result, obs>>
    /\ pc' = "progress"
    /\ UNCHANGED <<config, iteration, total_iterations, conv_iterations, messages,
                   reasoning_response, current_solution, result, apiVars>>

\* the observer forgets what it saw of an iteration when the iteration ends
EndOfIteration(o) ==
    [o EXCEPT !.tested = FALSE, !.evolved = FALSE, !.score = NoScore, !.calls = <<>>]

\* lines 224-240: the break test and the increment of the for loop
Progress ==
    /\ pc = "progress"
    /\ IF ErrorsResolved(iteration, config, current_solution, last_test_result)
       THEN /\ pc' = "after_loop"
            /\ obs' = [EndOfIteration(obs) EXCEPT !.exit = "break"]
            /\ UNCHANGED iteration
       ELSE /\ pc' = "loop"
            /\ iteration' = iteration + 1
            /\ obs' = EndOfIteration(obs)
    /\ reasoning_response' = NULL
    /\ UNCHANGED <<config, total_iterations, conv_iterations, messages, current_solution,
                   last_test_result, evolution, result, apiVars>>

\* the value returned after the loop, whether the solution file was written
\* or not
ReturnValue_FileNeeded(written) == IF written THEN "0" ELSE "-1"

ReturnValue(written) == "0"

\* lines 242-316: the solution file is written when there is a solution; the
\* final evaluation is printed and dropped
Finish ==
    /\ pc = "after_loop"
    /\ \E fopen_ok \in BOOLEAN :
          obs' = [obs EXCEPT !.solution_file = strlen(current_solution) > 0 /\ fopen_ok]
    /\ result' = ReturnValue(obs'.solution_file)
    /\ pc' = "returned"
    /\ UNCHANGED <<config, iteration, total_iterations, conv_iterations, messages,
                   reasoning_response, current_solution, last_test_result, evolution,
                   apiVars>>

Next ==
    \/ Start
    \/ LoopHead
    \/ FastTurn
    \/ ReasoningTurn
    \/ FixTurn
    \/ UpdateSolution
    \/ Evolve
    \/ Progress
    \/ Finish

Spec == Init /\ [][Next]_vars

(***************************************************************************)
(* Direct calls of the test pipeline and of the evaluation                 *)
(***************************************************************************)
\* the binary measure_performance compiles (/tmp/perf_test_<pid>)
PERF_BINARY == "perf_test"

\* env: whether the compiler run by system() succeeds and what the five runs
\* of the binary measure
measure_performance(env) ==
    IF ~env.compile_ok
    THEN [metrics |-> NoPerformance, created |-> {}, removed |-> {}]
    ELSE [metrics |-> env.performance, created |-> {PERF_BINARY}, removed |-> {PERF_BINARY}]

CodeMain == <<MAIN, Ch("m")>>           \* a program with int main
CodeLib == <<Ch("l")>>                  \* library code without main

\* what a command prints: nothing, a line, a compiler error, a linker
\* message, a crash, a crash after a compiler error, more than the message
\* buffer holds after its prefix
LongOutput == << <<"z", ModelResponseSize - 10>> >>
TestOutputs ==
    {<<>>, <<Ch("o")>>, <<ERROR_COLON>>, << <<"cannot find", 11>> >>, <<SEGFAULT>>,
     <<SEGFAULT, SP, ERROR_COLON>>, LongOutput}

\* which of the three commands can be spawned
Spawns == {<<TRUE, TRUE, TRUE>>, <<FALSE, TRUE, TRUE>>, <<TRUE, FALSE, TRUE>>,
           <<TRUE, TRUE, FALSE>>}

ExitCodes == {<<0, 0, 0>>, <<1, 0, 0>>, <<0, 1, 0>>, <<0, 0, 2>>}

\* environments in which every buffer and the source file can be had
SpawnEnvs ==
    [alloc_ok : {TRUE}, file_ok : {TRUE}, popen_ok : Spawns, stage_allocs : {3},
     rcs : ExitCodes, output : TestOutputs]

\* environments in which the result buffers, the source file or the output
\* buffer of a stage cannot be had
ResourceEnvs ==
    {[EnvOk EXCEPT !.alloc_ok = FALSE], [EnvOk EXCEPT !.file_ok = FALSE]}
        \cup {[EnvOk EXCEPT !.stage_allocs = n] : n \in 0..2}

\* the environments of a direct test call
ApiTestEnvs == SpawnEnvs \cup ResourceEnvs

MeasureEnvs == [compile_ok : BOOLEAN, performance : Performances]

\* thresholds that are all 0, with profiling and analysis switched on
ZeroCriteria ==
    [init_evaluation_criteria EXCEPT !.min_performance_score = 0,
                                     !.max_execution_time_ms = 0,
                                     !.max_memory_usage_kb = 0,
                                     !.target_throughput = 0,
                                     !.min_test_coverage_percent = 0,
                                     !.max_cyclomatic_complexity = 0]

\* thresholds that hardly any program meets
StrictCriteria ==
    [init_evaluation_criteria EXCEPT !.min_performance_score = 10000,
                                     !.max_execution_time_ms = 100,
                                     !.max_memory_usage_kb = 512,
                                     !.target_throughput = 4000,
                                     !.min_test_coverage_percent = 100,
                                     !.max_cyclomatic_complexity = 1]

Criteria == {init_evaluation_criteria, NoProfiling, ZeroCriteria, StrictCriteria}

\* measured values from the best to the worst, for each metric
PerformanceGrid ==
    [execution_time_ms : {0, 500, 4000}, memory_usage_kb : {0, 1024, 20480},
     throughput : {0, 500, 2000}]

QualityGrid ==
    [cyclomatic_complexity : {1, 10, 12}, test_coverage_percent : {0, 40, 100},
     maintainability_index : {0, 35, 100}]

\* a passing test with any performance or with any quality
MetricEnvs ==
    [test : {EnvOk}, performance : PerformanceGrid,
     quality : {[cyclomatic_complexity |-> 5, test_coverage_percent |-> 80,
                 maintainability_index |-> 70]}]
        \cup [test : {EnvOk},
              performance : {[execution_time_ms |-> 500, memory_usage_kb |-> 1024,
                              throughput |-> 1000]},
              quality : QualityGrid]

\* the environments of a direct evaluation: the test passes or a stage fails
EvaluateEnvs ==
    [test : {EnvOk,
             TestEnv(TRUE, TRUE, TRUE, <<1, 0, 0>>, <<ERROR_COLON>>),
             TestEnv(TRUE, TRUE, TRUE, <<0, 1, 0>>, <<ERROR_COLON>>),
             TestEnv(TRUE, TRUE, TRUE, <<0, 0, 2>>, <<SEGFAULT>>)},
     performance : Performances, quality : Qualities]

ApiBuiltinTest ==
    /\ pc = "test"
    /\ api_ops < MaxApiOps
    /\ \E code \in {CodeMain, CodeLib}, env \in ApiTestEnvs :
          last_op' = [op |-> "test", content |-> code, env |-> env,
                      run |-> BuiltinTestRun(code, config.max_response_size, env)]
    /\ api_ops' = api_ops + 1
    /\ UNCHANGED <<pc, evolution, prev_op, runVars>>

ApiCustomTest ==
    /\ pc = "test"
    /\ api_ops < MaxApiOps
    /\ \E command \in {<<>>, Command}, env \in ApiTestEnvs :
          /\ env.file_ok
          /\ env.stage_allocs = 3
          /\ last_op' = [op |-> "custom", content |-> command, env |-> env,
                         run |-> TestOutcome(run_custom_test(command, config, env),
                                             <<>>, {}, {})]
    /\ api_ops' = api_ops + 1
    /\ UNCHANGED <<pc, evolution, prev_op, runVars>>

ApiMeasure ==
    /\ pc = "test"
    /\ api_ops < MaxApiOps
    /\ \E env \in MeasureEnvs :
          last_op' = [op |-> "measure", content |-> CodeMain, env |-> env,
                      run |-> measure_performance(env)]
    /\ api_ops' = api_ops + 1
    /\ UNCHANGED <<pc, evolution, prev_op, runVars>>

ApiEvaluate ==
    /\ pc = "test"
    /\ api_ops < MaxApiOps
    /\ \E criteria \in Criteria, command \in {<<>>, Command},
            env \in EvaluateEnvs \cup MetricEnvs :
          /\ env \in EvaluateEnvs \/ command = <<>>
          /\ last_op' = [op |-> "evaluate", content |-> command, env |-> env,
                         criteria |-> criteria,
                         run |-> evaluate_code_comprehensive(
                                     [config EXCEPT !.eval_criteria = criteria,
                                                    !.test_command = command],
                                     CodeMain, env)]
    /\ api_ops' = api_ops + 1
    /\ UNCHANGED <<pc, evolution, prev_op, runVars>>

TestInit ==
    /\ pc = "test"
    /\ config = ApiConfig
    /\ iteration = 0
    /\ total_iterations = 0
    /\ conv_iterations = 0
    /\ messages = <<>>
    /\ reasoning_response = NULL
    /\ current_solution = <<>>
    /\ last_test_result = ZeroTestResult
    /\ evolution = init_code_evolution
    /\ result = "none"
    /\ api_ops = 0
    /\ last_op = NoOp
    /\ prev_op = NoOp
    /\ obs = NoObs

TestNext == ApiBuiltinTest \/ ApiCustomTest \/ ApiMeasure \/ ApiEvaluate

TestSpec == TestInit /\ [][TestNext]_vars

(***************************************************************************)
(* Direct calls of add_message on one conversation                         *)
(***************************************************************************)
MessageContents == {<<Ch("a")>>, <<Ch("b")>>}

\* init_conversation: an empty buffer of 2 * max_conversation_turns messages
MessageInit ==
    /\ pc = "msg"
    /\ config \in {[ApiConfig EXCEPT !.max_conversation_turns = t] : t \in 1..MaxTurns}
    /\ iteration = 0
    /\ total_iterations = 0
    /\ conv_iterations = 0
    /\ messages = <<>>
    /\ reasoning_response = NULL
    /\ current_solution = <<>>
    /\ last_test_result = ZeroTestResult
    /\ evolution = init_code_evolution
    /\ result = "none"
    /\ api_ops = 0
    /\ last_op = NoOp
    /\ prev_op = NoOp
    /\ obs = NoObs

ApiAddMessage ==
    /\ pc = "msg"
    /\ api_ops < MaxMessages
    /\ \E sender \in {"AGENT_FAST", "AGENT_REASONING"}, content \in MessageContents :
          /\ messages' = add_message(messages, config.max_conversation_turns * 2,
                                     config.max_response_size, sender, content)
          /\ last_op' = [op |-> "add", sender |-> sender, content |-> content,
                         pre |-> messages]
    /\ api_ops' = api_ops + 1
    /\ UNCHANGED <<pc, config, iteration, total_iterations, conv_iterations,
                   reasoning_response, current_solution, last_test_result, evolution,
                   result, prev_op, obs>>

MessageNext == ApiAddMessage

MessageSpec == MessageInit /\ [][MessageNext]_vars

(***************************************************************************)
(* Direct calls of validate_and_clean_response                             *)
(***************************************************************************)
\* the texts of up to MaxResponseLen tokens over fences, the tag c, a letter
\* and the newline
RECURSIVE TextsOfLength(_)
TextsOfLength(n) ==
    IF n = 0 THEN {<<>>}
    ELSE {Append(t, c) : t \in TextsOfLength(n - 1), c \in {FENCE, Ch("c"), Ch("x"), NL}}

\* responses with two blocks: both tagged, the first one untagged, the first
\* one closed on the line of its opening fence
RespTwoBlocks == FENCE_C \o <<NL, Ch("x"), NL, FENCE, NL>> \o FENCE_C \o <<NL, Ch("y"), NL, FENCE>>
RespUntaggedFirst == <<FENCE, NL, Ch("x"), NL, FENCE, NL>> \o FENCE_C \o <<NL, Ch("y"), NL, FENCE>>
RespInlineFirst == FENCE_C \o <<SP, Ch("x"), FENCE, SP>> \o FENCE_C \o <<NL, Ch("y"), NL, FENCE>>

ValidatedResponses ==
    UNION {TextsOfLength(n) : n \in 0..MaxResponseLen}
        \cup {RespTwoBlocks, RespUntaggedFirst, RespInlineFirst}

ResponseInit ==
    /\ pc = "validate"
    /\ config = ApiConfig
    /\ iteration = 0
    /\ total_iterations = 0
    /\ conv_iterations = 0
    /\ messages = <<>>
    /\ reasoning_response = NULL
    /\ current_solution = <<>>
    /\ last_test_result = ZeroTestResult
    /\ evolution = init_code_evolution
    /\ result = "none"
    /\ api_ops = 0
    /\ last_op = NoOp
    /\ prev_op = NoOp
    /\ obs = NoObs

\* a response is validated, and then the text that call returned
ApiValidate ==
    /\ pc \in {"validate", "validated"}
    /\ pc = "validated" => last_op.out # NULL
    /\ \E alloc_ok \in BOOLEAN,
          response \in IF pc = "validate" THEN ValidatedResponses \cup {NULL}
                       ELSE {last_op.out} :
          last_op' = [op |-> "validate", content |-> response,
                      out |-> validate_and_clean_response(response, alloc_ok)]
    /\ prev_op' = last_op
    /\ pc' = IF pc = "validate" THEN "validated" ELSE "validated_twice"
    /\ api_ops' = api_ops + 1
    /\ UNCHANGED <<evolution, runVars>>

\* update_solution_with_testing on the validated text, as run_collaboration
\* calls it; kind and out tell what was taken from the text
ApiUpdateSolution ==
    /\ pc = "validated"
    /\ last_op.out # NULL
    /\ LET taken == ExtractSolution(last_op.out, config.max_code_size) IN
       /\ last_op' = [op |-> "update_solution", content |-> last_op.out,
                      out |-> IF taken.kind = "code" THEN taken.code ELSE NULL,
                      kind |-> taken.kind]
       /\ \/ /\ taken.kind = "code"
             /\ Tested(update_solution_with_testing(config, last_op.out, EnvOk))
             /\ pc' = "updated"
          \/ /\ taken.kind \in {"none", "undefined"}
             /\ pc' = "updated"
             /\ UNCHANGED <<current_solution, last_test_result, obs>>
          \/ /\ taken.kind = "undefined"
             /\ pc' = "crashed"
             /\ UNCHANGED <<current_solution, last_test_result, obs>>
    /\ prev_op' = last_op
    /\ api_ops' = api_ops + 1
    /\ UNCHANGED <<config, iteration, total_iterations, conv_iterations, messages,
                   reasoning_response, evolution, result>>

ResponseNext == ApiValidate \/ ApiUpdateSolution

ResponseSpec == ResponseInit /\ [][ResponseNext]_vars

(***************************************************************************)
(* Direct calls on the evaluation history of one context                   *)
(***************************************************************************)
\* evaluations to save: two that differ in the output of the test only and
\* so have the same scores, one of a failed compilation, and the same three
\* under the default criteria
HistoryResults ==
    {evaluate_code_comprehensive([ApiConfig EXCEPT !.eval_criteria = criteria], CodeMain,
         [test |-> env,
          performance |-> [execution_time_ms |-> 500, memory_usage_kb |-> 1024,
                           throughput |-> 1000],
          quality |-> [cyclomatic_complexity |-> 5, test_coverage_percent |-> 80,
                       maintainability_index |-> 70]]) :
        criteria \in {NoProfiling, init_evaluation_criteria},
        env \in {EnvOk, TestEnv(TRUE, TRUE, TRUE, <<0, 0, 0>>, <<Ch("x")>>),
                 TestEnv(TRUE, TRUE, TRUE, <<0, 1, 0>>, <<ERROR_COLON>>)}}

HistoryInit ==
    /\ pc = "history"
    /\ config = ApiConfig
    /\ iteration = 0
    /\ total_iterations = 0
    /\ conv_iterations = 0
    /\ messages = <<>>
    /\ reasoning_response = NULL
    /\ current_solution = <<>>
    /\ last_test_result = ZeroTestResult
    /\ evolution = init_code_evolution
    /\ result = "none"
    /\ api_ops = 0
    /\ last_op = NoOp
    /\ prev_op = NoOp
    /\ obs = NoObs

ApiSaveEvaluation ==
    /\ pc = "history"
    /\ api_ops < MaxHistory
    /\ \E r \in HistoryResults :
          evolution' = save_evaluation_history(evolution, r)
    /\ last_op' = [op |-> "save", pre |-> evolution, ret |-> 0]
    /\ api_ops' = api_ops + 1
    /\ UNCHANGED <<pc, prev_op, runVars>>

ApiBestEvaluation ==
    /\ pc = "history"
    /\ last_op.op # "best"
    /\ last_op' = [op |-> "best", pre |-> evolution, ret |-> get_best_evaluation(evolution)]
    /\ UNCHANGED <<pc, evolution, api_ops, prev_op, runVars>>

HistoryNext == ApiSaveEvaluation \/ ApiBestEvaluation

HistorySpec == HistoryInit /\ [][HistoryNext]_vars

(***************************************************************************)
(* The steps of one call of measure_performance                            *)
(*                                                                         *)
(* last_op holds the locals of the call: i, the loop variable; children,   *)
(* the state of every child forked so far ("running", "exited" once it has *)
(* terminated, "reaped" once wait4 has returned for it); timed, the runs   *)
(* whose time was added to total_time.                                     *)
(***************************************************************************)
PERF_RUNS == 5      \* int runs = 5

\* wait4(pid, &status, 0, ..) returns once the child has terminated
WaitReturns_NoHang(status) == TRUE

WaitReturns(status) == status = "exited"

Running(children) == {c \in 1..Len(children) : children[c] = "running"}

PerfInit ==
    /\ pc = "perf_call"
    /\ config = ApiConfig
    /\ iteration = 0
    /\ total_iterations = 0
    /\ conv_iterations = 0
    /\ messages = <<>>
    /\ reasoning_response = NULL
    /\ current_solution = <<>>
    /\ last_test_result = ZeroTestResult
    /\ evolution = init_code_evolution
    /\ result = "none"
    /\ api_ops = 0
    /\ last_op = [op |-> "measure_run", compiled |-> FALSE, i |-> 0, children |-> <<>>,
                  timed |-> 0]
    /\ prev_op = NoOp
    /\ obs = NoObs

\* lines 34-46: the compilation with system(); the call returns when it fails
PerfCompile ==
    /\ pc = "perf_call"
    /\ \E compile_ok \in BOOLEAN :
          /\ last_op' = [last_op EXCEPT !.compiled = compile_ok]
          /\ pc' = IF compile_ok THEN "perf_loop" ELSE "perf_returned"
    /\ UNCHANGED <<evolution, api_ops, prev_op, runVars>>

\* lines 62-72: fork() at the head of a run; without a child the run is over
PerfFork ==
    /\ pc = "perf_loop"
    /\ last_op.i < PERF_RUNS
    /\ \E fork_ok \in BOOLEAN :
          IF fork_ok
          THEN /\ last_op' = [last_op EXCEPT !.children = Append(@, "running")]
               /\ pc' = "perf_wait"
          ELSE /\ last_op' = [last_op EXCEPT !.i = @ + 1]
               /\ pc' = "perf_loop"
    /\ UNCHANGED <<evolution, api_ops, prev_op, runVars>>

\* lines 68-71: the child runs the binary, or exit(1), and terminates
ChildExits ==
    /\ pc \in {"perf_loop", "perf_wait", "perf_returned"}
    /\ \E c \in Running(last_op.children) :
          last_op' = [last_op EXCEPT !.children[c] = "exited"]
    /\ UNCHANGED <<pc, evolution, api_ops, prev_op, runVars>>

\* lines 73-93: wait4 for the child of this run; the time of the run counts
\* when wait4 returns the pid (it returns -1 when SIGCHLD is ignored)
PerfWait ==
    /\ pc = "perf_wait"
    /\ WaitReturns(last_op.children[Len(last_op.children)])
    /\ \E reaped \in BOOLEAN :
          last_op' = [last_op EXCEPT !.children[Len(last_op.children)] =
                                         IF @ = "exited" THEN "reaped" ELSE @,
                                     !.timed = @ + (IF reaped THEN 1 ELSE 0),
                                     !.i = @ + 1]
    /\ pc' = "perf_loop"
    /\ UNCHANGED <<evolution, api_ops, prev_op, runVars>>

\* lines 96-127: the metrics are computed and the call returns
PerfReturn ==
    /\ pc = "perf_loop"
    /\ last_op.i = PERF_RUNS
    /\ pc' = "perf_returned"
    /\ UNCHANGED <<evolution, apiVars, runVars>>

PerfNext == PerfCompile \/ PerfFork \/ ChildExits \/ PerfWait \/ PerfReturn

PerfSpec == PerfInit /\ [][PerfNext]_vars






(***************************************************************************)
(* run_collaboration: properties                                           *)
(***************************************************************************)
Terminal == {"returned", "crashed"}

PcRank ==
    CASE pc = "start" -> 8
      [] pc = "fast" -> 7
      [] pc = "reasoning" -> 6
      [] pc = "fix" -> 6
      [] pc = "update" -> 5
      [] pc = "evolve" -> 4
      [] pc = "progress" -> 3
      [] pc = "loop" -> 2
      [] OTHER -> 0

\* a measure of what is left of a run: 0 when it has ended, 1 after the
\* loop, else the iteration bodies still allowed and the place in the body
Rank ==
    IF pc \in Terminal THEN 0
    ELSE IF pc = "after_loop" THEN 1
    ELSE (max_error_iterations(config) - total_iterations) * 8 + PcRank

\* C1: for every N >= 1 and every behaviour of the agents and of the tests
\* the loop is left after at most 3*N iteration bodies: the number of bodies
\* never exceeds 3*N, and every step of a run lowers a measure that is a
\* natural number, so that no run goes on for ever
C1_LoopTerminates ==
    /\ [](total_iterations <= 3 * config.iterations /\ Rank >= 0)
    /\ [][Rank' < Rank]_vars

\* the cap ended a run whose test result never lost its failing flags
C1_Witness ==
    /\ pc = "after_loop"
    /\ obs.exit = "cap"
    /\ total_iterations = 3 * config.iterations
    /\ has_code_errors(last_test_result)

\* C2: when the loop is left without a fatal abort, either the iteration
\* index is >= N and the last test result has no failing stage, or
\* total_iterations >= 3*N
C2_ExitReasons ==
    pc = "after_loop" =>
        \/ iteration >= config.iterations /\ ~has_code_errors(last_test_result)
        \/ total_iterations >= 3 * config.iterations

\* the loop was left by the break of an ERROR_FIX iteration, below the cap
C2_Witness ==
    /\ pc = "after_loop"
    /\ obs.exit = "break"
    /\ iteration > config.iterations
    /\ total_iterations < 3 * config.iterations

AgentFailure == obs.event \in {"call", "validate"}

\* C3: when an agent call or the validation of a response fails, the run
\* returns a nonzero result at once: nothing more happens in that run and no
\* solution file is written
C3_FailureIsFatal ==
    /\ [](AgentFailure => pc = "returned" /\ result = "-1" /\ ~obs.solution_file)
    /\ [][AgentFailure => UNCHANGED vars]_vars

\* a validation failed in an ERROR_FIX iteration, with a solution at hand
C3_Witness ==
    /\ obs.event = "validate"
    /\ result = "-1"
    /\ iteration >= config.iterations
    /\ strlen(current_solution) > 0

\* C4 as stated: a nonzero result only after a failed agent call or a failed
\* validation
C4_OnlyAgentFailures == result = "-1" => AgentFailure

\* C4 as amended: a nonzero result only after a failed prompt generation, a
\* failed agent call or a failed validation; a run that ends in any other
\* way returns 0 or, when the process stops in undefined behaviour, nothing
C4_OnlyTurnFailures ==
    /\ result = "-1" => obs.event \in {"prompt", "call", "validate"}
    /\ pc = "returned" /\ obs.event = "none" => result = "0"
    /\ pc = "crashed" => result = "none"

\* a prompt could not be generated
C4_Witness ==
    /\ result = "-1"
    /\ obs.event = "prompt"
    /\ pc = "returned"

AfterUpdate == pc \in {"evolve", "progress"}

\* C5: after every reasoning turn the test pipeline has been run on the
\* solution of that turn and its result is the last test result
C5_TestedEveryTurn ==
    AfterUpdate => obs.tested /\ obs.tested_solution = current_solution

EvolutionRuns ==
    /\ EvolutionMode(config)
    /\ config.evolution_file # NULL
    /\ HasMarker(config.evolution_file)

AllFitness(score) ==
    \A i \in 1..Len(evolution.regions) : evolution.regions[i].fitness_score = score

\* the regions are those of a parse of the current solution, whatever their
\* fitness
Reparsed ==
    LET fresh == parse_evolution_regions(init_code_evolution, current_solution).regions
    IN /\ Len(evolution.regions) = Len(fresh)
       /\ \A i \in 1..Len(fresh) :
             [evolution.regions[i] EXCEPT !.fitness_score = 0] = fresh[i]

\* C6 as stated: after every iteration step that leaves a solution with the
\* start marker, the regions have been parsed again from it and a cycle has
\* set the fitness of every region to its score
C6_EveryStep ==
    pc = "progress" /\ HasMarker(current_solution) =>
        obs.evolved /\ Reparsed /\ obs.score # NoScore /\ AllFitness(obs.score)

\* C6 as amended: the same after every NORMAL iteration of a run whose
\* evolution file was read and has a start marker, where a cycle without a
\* score leaves the fitness 0; an ERROR_FIX iteration leaves the context alone
C6_NormalSteps ==
    /\ [](pc = "progress" /\ HasMarker(current_solution)
            /\ iteration < config.iterations /\ EvolutionRuns =>
              /\ obs.evolved
              /\ Reparsed
              /\ AllFitness(IF obs.score = NoScore THEN 0 ELSE obs.score))
    /\ [][iteration >= config.iterations => evolution' = evolution]_vars

\* a cycle of a NORMAL iteration gave its regions a score
C6_Witness ==
    /\ pc = "progress"
    /\ HasMarker(current_solution)
    /\ iteration < config.iterations
    /\ EvolutionRuns
    /\ Len(evolution.regions) > 0
    /\ obs.score > 0
    /\ AllFitness(obs.score)

\* C7: after k saved evaluations the history holds k entries
C7_HistoryKeepsAll == Len(evolution.evaluation_history) = obs.saved

LineBreaks(text) == {i \in 1..Len(text) : text[i] = NL}

\* the position of the k-th line break; 0 and Len + 1 stand for the two ends
LineBreak(text, k) ==
    IF k = 0 THEN 0
    ELSE IF k > Cardinality(LineBreaks(text)) THEN Len(text) + 1
    ELSE CHOOSE i \in LineBreaks(text) :
            Cardinality({j \in LineBreaks(text) : j < i}) = k - 1

\* every line of a text, the empty ones too: its characters, whether a line
\* break ends it, and its number
SourceLines(text) ==
    LET n == Cardinality(LineBreaks(text))
                 + (IF text # <<>> /\ text[Len(text)] # NL THEN 1 ELSE 0)
    IN [k \in 1..n |->
           [text |-> SubSeq(text, LineBreak(text, k - 1) + 1, LineBreak(text, k) - 1),
            newline |-> k <= Cardinality(LineBreaks(text)),
            index |-> k]]

IsStartLine(l) == strstr(l.text, <<START>>, 1) # 0
IsEndLine(l) == ~IsStartLine(l) /\ strstr(l.text, <<END>>, 1) # 0
IsMarkerLine(l) == IsStartLine(l) \/ IsEndLine(l)

\* line k lies strictly between a start marker line and the next marker line
InBody(L, k) ==
    /\ ~IsMarkerLine(L[k])
    /\ \E a \in 1..(k - 1) :
          IsStartLine(L[a]) /\ \A b \in (a + 1)..(k - 1) : ~IsMarkerLine(L[b])

\* start and end marker lines alternate, a start first and an end last
WellFormedLines(L) ==
    /\ \A a \in 1..Len(L) : IsStartLine(L[a]) =>
          \E e \in (a + 1)..Len(L) :
              IsEndLine(L[e]) /\ \A b \in (a + 1)..(e - 1) : ~IsMarkerLine(L[b])
    /\ \A e \in 1..Len(L) : IsEndLine(L[e]) =>
          \E a \in 1..(e - 1) :
              IsStartLine(L[a]) /\ \A b \in (a + 1)..(e - 1) : ~IsMarkerLine(L[b])

WellFormed(text) == WellFormedLines(SourceLines(text))

\* the lines outside the region bodies, each with its line break
OutsideLines(L) ==
    LET outside(l) == ~InBody(L, l.index)
        kept == SelectSeq(L, outside)
    IN [k \in 1..Len(kept) |-> <<kept[k].text, kept[k].newline>>]

OutsideBodies(text) == OutsideLines(SourceLines(text))

\* the latest direct call was assemble(ctx, code), made right after
\* parse(ctx, code)
AssembledAfterParse ==
    /\ last_op.op = "assemble"
    /\ prev_op.op = "parse"
    /\ prev_op.content = last_op.content

\* C12: for a code with well-formed marker pairs, assemble(parse(code), code)
\* equals code in every character outside the region bodies: the same lines
\* and line breaks in the same order
C12_AssembleReproduces ==
    AssembledAfterParse /\ WellFormed(last_op.content) =>
        OutsideBodies(last_op.out) = OutsideBodies(last_op.content)

\* what is written after the start marker of a line, without the separators
\* in front of it and the blanks behind it
WrittenAfterMarker(l) ==
    LET rest == SubSeq(l.text, strstr(l.text, <<START>>, 1) + 1, Len(l.text))
        first == CHOOSE i \in 1..(Len(rest) + 1) :
                    /\ \A j \in 1..(i - 1) : rest[j] \in {SP, TAB, COLON}
                    /\ i <= Len(rest) => rest[i] \notin {SP, TAB, COLON}
        last == CHOOSE i \in (first - 1)..Len(rest) :
                    /\ \A j \in (i + 1)..Len(rest) : IsSpace(rest[j])
                    /\ i >= first => ~IsSpace(rest[i])
    IN SubSeq(rest, first, last)

\* the description of the j-th pair: the written one, region_j when nothing
\* is written
PairDescription(l, j) ==
    IF WrittenAfterMarker(l) = <<>> THEN << <<"region_", 7>> >> \o Dec(j)
    ELSE WrittenAfterMarker(l)

\* the lines strictly between start line a and the next end marker line, each
\* with a newline
PairBody(L, a) ==
    LET e == CHOOSE i \in (a + 1)..Len(L) :
                 IsEndLine(L[i]) /\ \A b \in (a + 1)..(i - 1) : ~IsEndLine(L[b])
    IN Concat([k \in 1..(e - a - 1) |-> L[a + k].text \o <<NL>>])

PairsParsed(L, starts) ==
    /\ Len(evolution.regions) = Len(starts)
    /\ \A j \in 1..Len(starts) :
          /\ evolution.regions[j].description = PairDescription(starts[j], j)
          /\ evolution.regions[j].content = PairBody(L, starts[j].index)

\* the latest direct call was parse(ctx, code) with well-formed marker pairs
ParsedWellFormed == last_op.op = "parse" /\ WellFormed(last_op.content)

\* C13: a parse of a code with well-formed marker pairs gives one region per
\* pair, in the order of the pairs, with the description written after the
\* start marker and, as content, the lines strictly between the two markers,
\* each with a newline
C13_OneRegionPerPair ==
    ParsedWellFormed =>
        PairsParsed(SourceLines(last_op.content),
                    SelectSeq(SourceLines(last_op.content), IsStartLine))

\* C14: a parse of a code without a start marker leaves zero regions and a
\* disabled context and returns 0, and assemble with that context returns
\* the code as it is
C14_NoMarkers ==
    /\ last_op.op = "parse" /\ ~HasMarker(last_op.content) =>
          /\ Len(evolution.regions) = 0
          /\ ~evolution.evolution_enabled
          /\ last_op.ret = 0
    /\ AssembledAfterParse /\ ~HasMarker(last_op.content) =>
          last_op.out = last_op.content

\* a context with a region is parsed from a code without markers and then
\* assembled with it
C14_Witness ==
    /\ AssembledAfterParse
    /\ ~HasMarker(last_op.content)
    /\ Len(prev_op.pre.regions) > 0
    /\ Len(evolution.regions) = 0
    /\ last_op.out = last_op.content

(***************************************************************************)
(* Test pipeline and evaluation: properties                                *)
(***************************************************************************)
\* C15: when a built-in test run or a performance measurement returns, every
\* temporary file the call created (the source file, the compiled binary)
\* has been removed, on every exit path
C15_TemporariesRemoved ==
    last_op.op \in {"test", "measure"} => last_op.run.created \subseteq last_op.run.removed

STAGES == <<"syntax", "compile", "execute">>

\* the flags of a test result in the order of the stages
StageFlags(t) == <<t.syntax_ok, t.compilation_ok, t.execution_ok>>

\* the built-in test run of the latest call and what its k-th command gave
BuiltinRun == last_op.op = "test"
StageCommand(k) == execute_command(last_op.env, k, config.max_response_size)

\* the commands were run in the order of the stages, each one only after the
\* one before it had succeeded
StagesInOrder ==
    /\ Len(last_op.run.commands) <= 3
    /\ \A k \in 1..Len(last_op.run.commands) :
          /\ last_op.run.commands[k] = STAGES[k]
          /\ k > 1 => StageCommand(k - 1).status = 0

\* the last stage that was attempted failed
StageFailed ==
    /\ BuiltinRun
    /\ last_op.run.commands # <<>>
    /\ StageCommand(Len(last_op.run.commands)).status # 0

\* the flag of the failing stage and the flags of the later stages are false
FailedFlagsFalse ==
    \A k \in Len(last_op.run.commands)..3 : ~StageFlags(last_op.run.result)[k]

\* what the failing stage writes in front of the captured output
StagePrefix(k, command) ==
    CASE k = 1 -> << <<"Syntax check failed:", 20>>, NL >>
      [] k = 2 -> << <<"Compilation failed:", 19>>, NL >>
      [] k = 3 -> << <<"Program exited with non-zero exit code: ", 40>> >>
                      \o DecInt(command.status)
                      \o (IF command.output # <<>> THEN <<NL, <<"Output:", 7>>, NL>>
                          ELSE <<>>)

FailedStageText(k) == StagePrefix(k, StageCommand(k)) \o StageCommand(k).output

\* C16 as stated: stages in order and short-circuit; when a stage fails its
\* flag and the later flags are false and error_message holds the whole
\* captured output of that stage
C16_StagesShortCircuit ==
    BuiltinRun =>
        /\ StagesInOrder
        /\ StageFailed =>
              /\ FailedFlagsFalse
              /\ \/ StageCommand(Len(last_op.run.commands)).output = <<>>
                 \/ strstr(last_op.run.result.error_message,
                           StageCommand(Len(last_op.run.commands)).output, 1) # 0

\* C16 amended: stages in order and short-circuit; when a stage fails its
\* flag and the later flags are false and error_message is the stage's
\* prefix followed by its captured output, cut to max_response_size - 1
\* characters
C16_StagesOutputCut ==
    BuiltinRun =>
        /\ StagesInOrder
        /\ StageFailed =>
              /\ FailedFlagsFalse
              /\ last_op.run.result.error_message
                    = strncpy(FailedStageText(Len(last_op.run.commands)),
                              config.max_response_size - 1)

\* a compilation that failed after printing more than the message can hold
C16_Witness ==
    /\ StageFailed
    /\ last_op.run.commands = <<"syntax", "compile">>
    /\ StageFlags(last_op.run.result) = <<TRUE, FALSE, FALSE>>
    /\ last_op.env.output = LongOutput
    /\ strlen(last_op.run.result.error_message) = config.max_response_size - 1
    /\ strlen(FailedStageText(2)) > config.max_response_size - 1

CustomRun == last_op.op = "custom"

\* the last command the latest call attempted could not be spawned
SpawnFailed ==
    \/ /\ BuiltinRun
       /\ last_op.run.commands # <<>>
       /\ ~last_op.env.popen_ok[Len(last_op.run.commands)]
    \/ /\ CustomRun
       /\ last_op.env.alloc_ok
       /\ last_op.content # <<>>
       /\ ~last_op.env.popen_ok[1]

NonEmptyMessage(t) == t.error_message # NULL /\ strlen(t.error_message) > 0

\* C17 as stated: when a process cannot be spawned at any stage of the
\* built-in test run or in the custom test run, the returned result has
\* syntax_ok, compilation_ok and execution_ok all false and a non-empty
\* error_message
C17_SpawnFailureAllFalse ==
    SpawnFailed =>
        /\ StageFlags(last_op.run.result) = <<FALSE, FALSE, FALSE>>
        /\ NonEmptyMessage(last_op.run.result)

\* C17 amended: the call returns a result in which the flag of the stage
\* whose process could not be spawned and the flags of the later stages are
\* false (all three in the custom test run), the flags of the stages that
\* had succeeded are true, and error_message names the command that could
\* not be executed
C17_SpawnFailureStageFalse ==
    SpawnFailed =>
        /\ CustomRun => StageFlags(last_op.run.result) = <<FALSE, FALSE, FALSE>>
        /\ BuiltinRun =>
              /\ FailedFlagsFalse
              /\ \A k \in 1..(Len(last_op.run.commands) - 1) :
                    StageFlags(last_op.run.result)[k]
        /\ NonEmptyMessage(last_op.run.result)
        /\ Contains(last_op.run.result.error_message,
                    {<<"Failed to execute command: ", 27>>,
                     <<"Failed to execute test command: ", 32>>})

\* the binary of a program that passed the syntax check and compiled could
\* not be started
C17_Witness ==
    /\ SpawnFailed
    /\ last_op.run.commands = STAGES
    /\ last_op.env.popen_ok = <<TRUE, TRUE, FALSE>>
    /\ StageFlags(last_op.run.result) = <<TRUE, TRUE, FALSE>>
    /\ NonEmptyMessage(last_op.run.result)

\* the process of the custom test command of the latest call ran and exited
CustomExited ==
    /\ CustomRun
    /\ last_op.env.alloc_ok
    /\ last_op.content # <<>>
    /\ last_op.env.popen_ok[1]

\* C18: a custom test command whose process exits with code 0 gives, whatever
\* it printed, a result with syntax_ok, compilation_ok and execution_ok all
\* true and an empty error_message
C18_CustomExitZero ==
    CustomExited /\ last_op.env.rcs[1] = 0 =>
        /\ StageFlags(last_op.run.result) = <<TRUE, TRUE, TRUE>>
        /\ last_op.run.result.error_message = <<>>

\* the command printed a crash and a compiler error and exited with 0
C18_Witness ==
    /\ CustomExited
    /\ last_op.env.rcs[1] = 0
    /\ last_op.env.output = <<SEGFAULT, SP, ERROR_COLON>>
    /\ last_op.run.result.output = last_op.env.output
    /\ StageFlags(last_op.run.result) = <<TRUE, TRUE, TRUE>>

\* the custom test command of the latest call exited with a nonzero code
CustomFailed == CustomExited /\ last_op.env.rcs[1] # 0

\* the compile-error patterns the claim names, the one it leaves out, and
\* the runtime-crash patterns
NamedCompilePatterns ==
    {ERROR_COLON, <<"undefined reference", 19>>, <<"fatal error", 11>>}
CompilePatterns == NamedCompilePatterns \cup {<<"cannot find", 11>>}
CrashPatterns == {SEGFAULT, <<"abort", 5>>, <<"core dumped", 11>>}

\* the flags a nonzero exit gives when the captured output is searched for
\* these compile-error patterns
FailureFlags(patterns) ==
    IF Contains(last_op.run.result.output, patterns) THEN <<FALSE, FALSE, FALSE>>
    ELSE <<TRUE, TRUE, FALSE>>

\* C19 as stated: on a nonzero exit the flags are all false when the captured
\* output contains "error:", "undefined reference" or "fatal error", and
\* otherwise syntax and compile are true and execute is false; error_message
\* is non-empty
C19_CustomExitNonzero ==
    CustomFailed =>
        /\ StageFlags(last_op.run.result) = FailureFlags(NamedCompilePatterns)
        /\ NonEmptyMessage(last_op.run.result)

\* C19 amended: as stated, with "cannot find" as a fourth compile-error
\* pattern
C19_CustomExitPatterns ==
    CustomFailed =>
        /\ StageFlags(last_op.run.result) = FailureFlags(CompilePatterns)
        /\ NonEmptyMessage(last_op.run.result)

\* a nonzero exit whose output has a crash pattern in front of a
\* compile-error pattern
C19_Witness ==
    /\ CustomFailed
    /\ last_op.run.result.output = <<SEGFAULT, SP, ERROR_COLON>>
    /\ Contains(last_op.run.result.output, CrashPatterns)
    /\ StageFlags(last_op.run.result) = <<FALSE, FALSE, FALSE>>

Evaluated == last_op.op = "evaluate"

\* the score has the minimum and the test result has all three flags
ScoreAndFlags(r, criteria) ==
    /\ r.performance_score >= criteria.min_performance_score
    /\ StageFlags(r.test_result) = <<TRUE, TRUE, TRUE>>

\* every measured value is within its threshold
WithinThresholds(r, criteria) ==
    /\ r.performance.execution_time_ms <= criteria.max_execution_time_ms
    /\ r.performance.memory_usage_kb <= criteria.max_memory_usage_kb
    /\ r.quality.test_coverage_percent >= criteria.min_test_coverage_percent
    /\ r.quality.cyclomatic_complexity <= criteria.max_cyclomatic_complexity

\* every measured value is within its threshold, a threshold of 0 being none
WithinSetThresholds(r, criteria) ==
    /\ criteria.max_execution_time_ms > 0 =>
          r.performance.execution_time_ms <= criteria.max_execution_time_ms
    /\ criteria.max_memory_usage_kb > 0 =>
          r.performance.memory_usage_kb <= criteria.max_memory_usage_kb
    /\ criteria.min_test_coverage_percent > 0 =>
          r.quality.test_coverage_percent >= criteria.min_test_coverage_percent
    /\ criteria.max_cyclomatic_complexity > 0 =>
          r.quality.cyclomatic_complexity <= criteria.max_cyclomatic_complexity

\* C20 as stated: passed_criteria is true exactly when performance_score has
\* the minimum, time and memory are within their caps, coverage has the
\* minimum, complexity is at most the maximum and the three flags are true
C20_PassedIffAll ==
    Evaluated =>
        (last_op.run.passed_criteria
            <=> /\ ScoreAndFlags(last_op.run, last_op.criteria)
                /\ WithinThresholds(last_op.run, last_op.criteria))

\* C20 amended: the same, where a cap or a maximum of 0 switches its check
\* off; a test result with a false flag never passes
C20_PassedIffAllSet ==
    Evaluated =>
        /\ last_op.run.passed_criteria
              <=> /\ ScoreAndFlags(last_op.run, last_op.criteria)
                  /\ WithinSetThresholds(last_op.run, last_op.criteria)
        /\ StageFlags(last_op.run.test_result) # <<TRUE, TRUE, TRUE>> =>
              ~last_op.run.passed_criteria

\* an evaluation that passes with caps of 0 and a measured time above 0
C20_Witness ==
    /\ Evaluated
    /\ last_op.run.passed_criteria
    /\ last_op.criteria.max_execution_time_ms = 0
    /\ last_op.run.performance.execution_time_ms > 0
    /\ last_op.run.quality.cyclomatic_complexity > 0

(***************************************************************************)
(* Evaluation scores: properties                                           *)
(***************************************************************************)
\* hundredths of a point from 0 to 100
ScoreRange == 0..10000

\* C21: overall_score = 0.4 * correctness_score + 0.3 * performance_score
\* + 0.3 * quality_score, and the four scores lie in [0, 100] whatever the
\* measured metrics and the thresholds are (the overall score is kept in
\* thousandths of a point)
C21_OverallScore ==
    Evaluated =>
        /\ last_op.run.overall_score
              = 4 * last_op.run.correctness_score + 3 * last_op.run.performance_score
                    + 3 * last_op.run.quality_score
        /\ last_op.run.correctness_score \in ScoreRange
        /\ last_op.run.performance_score \in ScoreRange
        /\ last_op.run.quality_score \in ScoreRange
        /\ last_op.run.overall_score \in 0..100000

\* a program that passes its test and runs four times as long as allowed:
\* the penalty is larger than the 100 points it is taken from
C21_Witness ==
    /\ Evaluated
    /\ last_op.criteria = init_evaluation_criteria
    /\ last_op.run.performance.execution_time_ms = 4000
    /\ last_op.run.correctness_score = 10000
    /\ last_op.run.performance_score = 0
    /\ last_op.run.overall_score = 40000 + 3 * last_op.run.quality_score

\* the configuration of the latest evaluation
EvaluatedConfig ==
    [config EXCEPT !.eval_criteria = last_op.criteria, !.test_command = last_op.content]

\* the scores of the latest evaluation had these metrics been measured
ScoreWith(performance, quality) ==
    evaluate_code_comprehensive(EvaluatedConfig, CodeMain,
        [last_op.env EXCEPT !.performance = performance, !.quality = quality])

\* p2 differs from p1 in one metric, in which it is better
BetterPerformance(p2, p1) ==
    \/ p2 = [p1 EXCEPT !.execution_time_ms = p2.execution_time_ms]
          /\ p2.execution_time_ms < p1.execution_time_ms
    \/ p2 = [p1 EXCEPT !.memory_usage_kb = p2.memory_usage_kb]
          /\ p2.memory_usage_kb < p1.memory_usage_kb
    \/ p2 = [p1 EXCEPT !.throughput = p2.throughput] /\ p2.throughput > p1.throughput

BetterQuality(q2, q1) ==
    \/ q2 = [q1 EXCEPT !.cyclomatic_complexity = q2.cyclomatic_complexity]
          /\ q2.cyclomatic_complexity < q1.cyclomatic_complexity
    \/ q2 = [q1 EXCEPT !.test_coverage_percent = q2.test_coverage_percent]
          /\ q2.test_coverage_percent > q1.test_coverage_percent
    \/ q2 = [q1 EXCEPT !.maintainability_index = q2.maintainability_index]
          /\ q2.maintainability_index > q1.maintainability_index

\* C22: with everything else fixed, a lower execution time, a lower memory
\* use or a higher throughput never lowers performance_score, and a lower
\* complexity, a higher coverage or a higher maintainability index never
\* lowers quality_score
C22_ScoreMonotonic ==
    Evaluated =>
        /\ \A p \in PerformanceGrid :
              BetterPerformance(p, last_op.env.performance) =>
                  ScoreWith(p, last_op.env.quality).performance_score
                      >= last_op.run.performance_score
        /\ \A q \in QualityGrid :
              BetterQuality(q, last_op.env.quality) =>
                  ScoreWith(last_op.env.performance, q).quality_score
                      >= last_op.run.quality_score

\* a slow program with too little throughput: before the cut at 0 its score
\* is negative, and it would rise in a faster run and in one with more
\* throughput
C22_Witness ==
    /\ Evaluated
    /\ last_op.criteria = init_evaluation_criteria
    /\ last_op.env.performance
          = [execution_time_ms |-> 4000, memory_usage_kb |-> 1024, throughput |-> 500]
    /\ last_op.run.performance_score = 0
    /\ ScoreWith([last_op.env.performance EXCEPT !.execution_time_ms = 500],
                 last_op.env.quality).performance_score = 5000

(***************************************************************************)
(* Conversation buffer: properties                                         *)
(***************************************************************************)
\* the capacity of the message buffer
MessageCapacity == 2 * config.max_conversation_turns

\* the buffer after a message has arrived: without its oldest message when
\* it was full, the others in their order, the new message last
Arrived(before, after) ==
    /\ after # <<>>
    /\ SubSeq(after, 1, Len(after) - 1)
          = IF Len(before) = MessageCapacity THEN Tail(before) ELSE before

\* C23: the message count never exceeds 2 * max_turns; an add_message call
\* on a full buffer evicts exactly the oldest message, keeps the order of
\* the others and puts the new message last
C23_BoundedFifo ==
    /\ [](Len(messages) <= MessageCapacity)
    /\ [][/\ Arrived(messages, messages')
          /\ messages'[Len(messages')].sender = last_op'.sender
          /\ messages'[Len(messages')].content = last_op'.content]_vars

\* a full buffer of four different messages has taken a fifth
C23_Witness ==
    /\ last_op.op = "add"
    /\ Len(last_op.pre) = 4
    /\ MessageCapacity = 4
    /\ Len(messages) = 4
    /\ last_op.pre[1] # last_op.pre[2]
    /\ last_op.pre[1] \notin {messages[i] : i \in 1..4}
    /\ SubSeq(messages, 1, 3) = Tail(last_op.pre)

(***************************************************************************)
(* run_collaboration: agents of an iteration                               *)
(***************************************************************************)
\* the agent turns of the current iteration are over
TurnsDone == pc \in {"update", "evolve", "progress"}

\* the senders of the last n messages
LastSenders(n) == [k \in 1..n |-> messages[Len(messages) - n + k].sender]

\* C24: in an iteration with index < N the fast agent is called once and then
\* the reasoning agent once, their messages recorded in that order; in an
\* iteration with index >= N only the reasoning agent is called, once. An
\* iteration that a failing agent turn ends has the calls made up to there
C24_AgentsOfIteration ==
    /\ iteration < config.iterations =>
          /\ obs.calls \in {<<>>, <<"AGENT_FAST">>, <<"AGENT_FAST", "AGENT_REASONING">>}
          /\ TurnsDone =>
                /\ obs.calls = <<"AGENT_FAST", "AGENT_REASONING">>
                /\ Len(messages) >= 2
                /\ LastSenders(2) = <<"AGENT_FAST", "AGENT_REASONING">>
    /\ iteration >= config.iterations =>
          /\ obs.calls \in {<<>>, <<"AGENT_REASONING">>}
          /\ TurnsDone =>
                /\ obs.calls = <<"AGENT_REASONING">>
                /\ Len(messages) >= 1
                /\ LastSenders(1) = <<"AGENT_REASONING">>

\* the turn of an error fix iteration is over, after two normal iterations
C24_Witness ==
    /\ pc = "progress"
    /\ config.iterations = 2
    /\ iteration = 2
    /\ obs.calls = <<"AGENT_REASONING">>
    /\ LastSenders(2) = <<"AGENT_REASONING", "AGENT_REASONING">>

\* C25: an iteration with index >= N begins only while the last test result
\* has a failing stage, never when syntax_ok, compilation_ok and execution_ok
\* are all true
C25_ErrorFixOnlyOnErrors ==
    [][iteration >= config.iterations /\ total_iterations' = total_iterations + 1
          => StageFlags(last_test_result) # <<TRUE, TRUE, TRUE>>]_vars

\* an error fix iteration has begun for a solution that was tested and that
\* compiled but did not run
C25_Witness ==
    /\ pc = "fix"
    /\ iteration >= config.iterations
    /\ obs.tested_solution # NULL
    /\ StageFlags(last_test_result) = <<TRUE, TRUE, FALSE>>

(***************************************************************************)
(* Response validation: properties                                         *)
(***************************************************************************)
\* a non-null response was validated and the copy could be allocated
Validated == last_op.op = "validate" /\ last_op.content # NULL /\ last_op.out # NULL

FencesOf(r) == {i \in 1..Len(r) : r[i] = FENCE}

\* an opening fence followed by a closing fence
HasFencePair(r) == \E i, j \in FencesOf(r) : i < j

\* the whole response in one new block after the explanatory prefix
Wrapped(r) == <<ANALYSIS, NL, NL, FENCE, Ch("c"), NL>> \o r \o <<NL, FENCE>>

Closed(r) == r \o <<NL, FENCE>>

\* the fence that is taken as the opening one: the first fence tagged c,
\* else the first fence
TaggedFencesOf(r) == {i \in FencesOf(r) : i < Len(r) /\ r[i + 1] = Ch("c")}
OpeningFence(r) ==
    IF TaggedFencesOf(r) # {} THEN Min(TaggedFencesOf(r)) ELSE Min(FencesOf(r))

\* the result contains a fence pair and a second validation returns it as is
ValidAndStable ==
    /\ HasFencePair(last_op.out)
    /\ pc = "validated_twice" /\ prev_op.out # NULL => last_op.out = last_op.content

\* C26 as stated: a non-null response comes back unchanged when it has an
\* opened and a closed fence, with a closing fence appended when a fence
\* opens and none closes it, wrapped in a new block when it has no fence; the
\* result contains an opening fence followed by a closing fence and is
\* returned unchanged by a second validation
C26_ValidatedByFences ==
    Validated =>
        /\ last_op.out =
              IF HasFencePair(last_op.content) THEN last_op.content
              ELSE IF FencesOf(last_op.content) # {} THEN Closed(last_op.content)
              ELSE Wrapped(last_op.content)
        /\ ValidAndStable

\* C26 amended: the opening fence is the first fence tagged c or, without
\* one, the first fence; the response comes back unchanged when a fence
\* follows the opening fence, with a closing fence appended when none
\* follows it, and wrapped when it has no fence; the result contains an
\* opening fence followed by a closing fence and is returned unchanged by a
\* second validation
C26_ValidatedByOpeningFence ==
    Validated =>
        /\ last_op.out =
              IF FencesOf(last_op.content) = {} THEN Wrapped(last_op.content)
              ELSE IF \E j \in FencesOf(last_op.content) :
                         j > OpeningFence(last_op.content)
              THEN last_op.content
              ELSE Closed(last_op.content)
        /\ ValidAndStable

\* a response whose only tagged fence is its last one was closed, and the
\* closed text was validated again
C26_Witness ==
    /\ pc = "validated_twice"
    /\ prev_op.content = <<FENCE, Ch("x"), FENCE, Ch("c")>>
    /\ prev_op.out = Closed(prev_op.content)
    /\ last_op.content = prev_op.out
    /\ last_op.out = prev_op.out

(***************************************************************************)
(* Evaluation history: properties                                          *)
(***************************************************************************)
BestAsked == last_op.op = "best"

\* C27: over a non-empty history get_best_evaluation returns an entry whose
\* overall_score is the highest of all entries, the one saved first among
\* those that have it; over an empty history it returns no entry
C27_BestEvaluation ==
    BestAsked =>
        LET history == last_op.pre.evaluation_history
        IN IF history = <<>> THEN last_op.ret = 0
           ELSE /\ last_op.ret \in 1..Len(history)
                /\ \A j \in 1..Len(history) :
                      history[j].overall_score <= history[last_op.ret].overall_score
                /\ \A j \in 1..(last_op.ret - 1) :
                      history[j].overall_score < history[last_op.ret].overall_score

\* the best of three entries is the second, which the third equals in score
\* and differs from in content
C27_Witness ==
    /\ BestAsked
    /\ Len(last_op.pre.evaluation_history) = 3
    /\ last_op.ret = 2
    /\ last_op.pre.evaluation_history[3].overall_score
          = last_op.pre.evaluation_history[2].overall_score
    /\ last_op.pre.evaluation_history[3] # last_op.pre.evaluation_history[2]

(***************************************************************************)
(* Region engine: assemble after an update, malformed nesting              *)
(***************************************************************************)
\* the latest direct calls were parse(ctx, code), update(ctx, d, c) for a
\* region d of that parse, and assemble(ctx, code)
AssembledAfterUpdate ==
    /\ last_op.op = "assemble"
    /\ prev_op.op = "update"
    /\ HasMarker(last_op.content)
    /\ prev_op.pre = parse_evolution_regions(init_code_evolution, last_op.content)
    /\ last_op.pre = update_evolution_region(prev_op.pre, prev_op.desc, prev_op.content)
    /\ FindRegion(prev_op.pre, prev_op.desc) # 0

\* a content with a newline at its end
Terminated(c) == IF c # <<>> /\ c[Len(c)] = NL THEN c ELSE c \o <<NL>>

\* a line as it stands in its text
LineText(l) == l.text \o (IF l.newline THEN <<NL>> ELSE <<>>)

\* the text whose lines are L, the body of the j-th marker pair replaced by c
WithBody(L, j, c) ==
    LET a == SelectSeq(L, IsStartLine)[j].index
        e == CHOOSE i \in (a + 1)..Len(L) :
                 IsEndLine(L[i]) /\ \A b \in (a + 1)..(i - 1) : ~IsEndLine(L[b])
    IN Concat([k \in 1..a |-> LineText(L[k])]) \o Terminated(c)
           \o Concat([k \in 1..(Len(L) - e + 1) |-> LineText(L[e + k - 1])])

\* C28: after parse(code) and update(ctx, d, c) for a parsed region d,
\* assemble(ctx, code) returns the code with the marker lines of d kept, the
\* body of d replaced by c with a newline at its end and every other line
\* unchanged, and a parse of the assembled text gives region d the content c
C28_UpdateAssembled ==
    AssembledAfterUpdate /\ WellFormed(last_op.content) =>
        /\ last_op.out = WithBody(SourceLines(last_op.content),
                                  FindRegion(prev_op.pre, prev_op.desc), prev_op.content)
        /\ LookupContent(parse_evolution_regions(last_op.pre, last_op.out), prev_op.desc)
              = Terminated(prev_op.content)

\* the lines strtok cuts a text into, those that are not empty, as records
AsLines(lines) == [k \in 1..Len(lines) |-> [text |-> lines[k]]]

TokenLines(text) == AsLines(Lines(text))

\* a region is open in front of line k: a start marker stands in front of it
\* with no end marker in between
OpenBefore(T, k) ==
    \E a \in 1..(k - 1) :
        IsStartLine(T[a]) /\ \A b \in (a + 1)..(k - 1) : ~IsEndLine(T[b])

Opens(T, k) == IsStartLine(T[k]) /\ ~OpenBefore(T, k)
Closes(T, k) == IsEndLine(T[k]) /\ OpenBefore(T, k)
NestedStart(T, k) == IsStartLine(T[k]) /\ OpenBefore(T, k)
OrphanEnd(T, k) == IsEndLine(T[k]) /\ ~OpenBefore(T, k)

\* the region closed by end line e as the j-th one: opened by the nearest
\* opening start in front of e, its body the lines without marker in between
ClosedRegion(T, e, j) ==
    LET a == CHOOSE k \in 1..(e - 1) :
                 Opens(T, k) /\ \A b \in (k + 1)..(e - 1) : ~Opens(T, b)
        body == {k \in (a + 1)..(e - 1) : ~IsMarkerLine(T[k])}
    IN [description |-> PairDescription(T[a], j),
        content |-> Concat([k \in 1..(e - a - 1) |->
                       IF (a + k) \in body THEN T[a + k].text \o <<NL>> ELSE <<>>]),
        start_line |-> a - 1, end_line |-> e - 1,
        generation |-> 0, fitness_score |-> 0]

\* the regions of the lines T: one for each end marker that closes a region
ClosedRegions(T) ==
    LET ends == {k \in 1..Len(T) : Closes(T, k)}
        nth(j) == CHOOSE e \in ends : Cardinality({k \in ends : k < e}) = j - 1
    IN [j \in 1..Cardinality(ends) |-> ClosedRegion(T, nth(j), j)]

\* the lines T hold a start marker inside an open region or an end marker
\* outside of one
Malformed(T) == \E k \in 1..Len(T) : NestedStart(T, k) \/ OrphanEnd(T, k)

\* the latest direct call was a parse of a code with markers
ParsedMarkers == last_op.op = "parse" /\ HasMarker(last_op.content)

RegionsOfMalformed(T) ==
    Malformed(T) =>
        /\ last_op.ret = Len(evolution.regions)
        /\ evolution.evolution_enabled
        /\ evolution.regions = ClosedRegions(T)

\* C29: a parse of a code with malformed marker nesting does not fail: a
\* start marker met in an open region and an end marker met outside of one
\* are ignored, the open region keeps its description and start line and is
\* closed by the next end marker, and the regions behind are returned
C29_MalformedIgnored ==
    ParsedMarkers => RegionsOfMalformed(TokenLines(last_op.content))

NestedAndOrphan(T) ==
    /\ \E k \in 1..Len(T) : NestedStart(T, k)
    /\ \E k \in 1..Len(T) : OrphanEnd(T, k)

\* a parse met a nested start and an orphan end and returned the region in
\* front of them and the one behind
C29_Witness ==
    /\ ParsedMarkers
    /\ last_op.ret = 2
    /\ NestedAndOrphan(TokenLines(last_op.content))
    /\ evolution.regions[1].description = DescA
    /\ evolution.regions[1].start_line = 0
    /\ evolution.regions[1].content = BodyX
    /\ evolution.regions[2].description = DescC
    /\ evolution.regions[2].content = BodyY

(***************************************************************************)
(* Evolution cycle: the fitness it leaves                                  *)
(***************************************************************************)
\* an evolution cycle has just run
CycleDone == pc = "progress" /\ obs.evolved

CustomOnly ==
    strlen(config.test_command) > 0 /\ ~config.enable_comprehensive_evaluation

\* the fitness range [0, 1], in units of 0.00001
FitnessRange == 0..100000

\* 0.3 for the syntax stage, 0.3 for the compilation, 0.4 for the execution
StageWeighted(t) ==
    30000 * (IF t.syntax_ok THEN 1 ELSE 0) + 30000 * (IF t.compilation_ok THEN 1 ELSE 0)
        + 40000 * (IF t.execution_ok THEN 1 ELSE 0)

\* C30 as stated: after an evolution cycle all regions have the same fitness
\* within [0, 1]; with a custom test command and no comprehensive evaluation
\* it is the stage-weighted sum of the test result the cycle leaves, with
\* comprehensive evaluation it is the overall score of the cycle over 100
C30_FitnessOfCycle ==
    CycleDone =>
        /\ \E f \in FitnessRange : AllFitness(f)
        /\ CustomOnly => AllFitness(StageWeighted(last_test_result))
        /\ config.enable_comprehensive_evaluation =>
              obs.score \in FitnessRange /\ AllFitness(obs.score)

\* C30 as amended: the stage-weighted sum is the fitness when the cycle could
\* write the evolved file and so ran the custom test; when it could not, no
\* test is run, the test result is the one found and the fitness is 0
C30_FitnessOfTestedCycle ==
    CycleDone =>
        /\ \E f \in FitnessRange : AllFitness(f)
        /\ CustomOnly =>
              IF obs.score # NoScore
              THEN AllFitness(StageWeighted(last_test_result))
              ELSE AllFitness(0)
        /\ config.enable_comprehensive_evaluation =>
              obs.score \in FitnessRange /\ AllFitness(obs.score)

\* a cycle ran the custom test, which passed two stages of three, and left
\* its region the fitness 0.6
C30_Witness ==
    /\ CycleDone
    /\ CustomOnly
    /\ Len(evolution.regions) > 0
    /\ obs.score # NoScore
    /\ StageFlags(last_test_result) = <<TRUE, TRUE, FALSE>>
    /\ AllFitness(60000)

(***************************************************************************)
(* Solution update: the block that is taken                                *)
(***************************************************************************)
\* the k-th fence of a response
NthFence(r, k) ==
    CHOOSE i \in FencesOf(r) : Cardinality({j \in FencesOf(r) : j < i}) = k - 1

\* the fenced blocks of a response: the fences taken in pairs, an opening
\* fence and the fence that closes it
Blocks(r) ==
    [k \in 1..(Cardinality(FencesOf(r)) \div 2) |->
        [open |-> NthFence(r, 2 * k - 1), close |-> NthFence(r, 2 * k)]]

IsTagged(r, b) == r[b.open + 1] = Ch("c")

\* the first block tagged c, else the first block
PreferredBlock(r) ==
    LET tagged == {k \in 1..Len(Blocks(r)) : IsTagged(r, Blocks(r)[k])}
    IN Blocks(r)[IF tagged # {} THEN Min(tagged) ELSE 1]

\* the body of a block: what stands between the line of its opening fence
\* and its closing fence, or between the fences when they share a line
BlockBody(r, b) ==
    LET newline == strchr(r, NL, b.open)
    IN IF newline # 0 /\ newline < b.close THEN SubSeq(r, newline + 1, b.close - 1)
       ELSE SubSeq(r, b.open + (IF IsTagged(r, b) THEN 2 ELSE 1), b.close - 1)

\* update_solution_with_testing stored a solution taken from a response
SolutionStored == last_op.op = "update_solution" /\ last_op.kind = "code"

\* C31: the solution stored from a response is the body of one fenced block,
\* the first block tagged c or, without one, the first block, and it is this
\* text that is tested; the text of a later block is never stored
C31_FirstBlockStored ==
    SolutionStored =>
        /\ Len(Blocks(last_op.content)) > 0
        /\ current_solution
              = TrimTrailing(BlockBody(last_op.content, PreferredBlock(last_op.content)))
        /\ obs.tested /\ obs.tested_solution = current_solution

(***************************************************************************)
(* Performance measurement: the children of the runs                       *)
(***************************************************************************)
Measuring == last_op.op = "measure_run"

Returned == pc = "perf_returned"

\* no two children are alive at the same time, and none is once the call
\* has returned
OneChildAtATime ==
    /\ Cardinality(Running(last_op.children)) <= 1
    /\ Returned => Running(last_op.children) = {}

\* C32 as stated: a call that compiled the artifact starts exactly 5 runs, a
\* child for each, waits for each child before it starts the next, and
\* returns after the last child has finished
C32_FiveChildren ==
    Measuring =>
        /\ OneChildAtATime
        /\ Len(last_op.children) <= PERF_RUNS
        /\ Returned /\ last_op.compiled => Len(last_op.children) = PERF_RUNS

\* C32 as amended: the call makes exactly 5 runs, each with at most one
\* child: a run whose fork fails has none; a child is started only when no
\* other is alive, and the call returns after the last child has finished
C32_FiveRuns ==
    Measuring =>
        /\ OneChildAtATime
        /\ Len(last_op.children) <= last_op.i + 1
        /\ last_op.i <= PERF_RUNS
        /\ pc = "perf_loop" => Len(last_op.children) <= last_op.i
        /\ Returned /\ last_op.compiled => last_op.i = PERF_RUNS
        /\ Returned /\ ~last_op.compiled => last_op.children = <<>>

\* a call has returned after five runs with a child each, all waited for
C32_Witness ==
    /\ Measuring
    /\ Returned
    /\ last_op.children = [c \in 1..PERF_RUNS |-> "reaped"]
    /\ last_op.timed = PERF_RUNS

(***************************************************************************)
(* Test results: the order of the stages                                   *)
(***************************************************************************)
\* a stage has passed only if the stage before it has
Ordered(t) == (t.execution_ok => t.compilation_ok) /\ (t.compilation_ok => t.syntax_ok)

\* C33: every result of the built-in and of the custom test run, whatever
\* fails in it, has execution_ok only with compilation_ok and compilation_ok
\* only with syntax_ok, and so has the last test result of the conversation
C33_StagesOrdered ==
    /\ BuiltinRun \/ CustomRun => Ordered(last_op.run.result)
    /\ Ordered(last_test_result)

\* a built-in run passed the syntax stage and could not allocate the buffer
\* for the output of the compiler
C33_Witness ==
    /\ BuiltinRun
    /\ last_op.env.stage_allocs = 1
    /\ StageFlags(last_op.run.result) = <<TRUE, FALSE, FALSE>>

(***************************************************************************)
(* Evaluation history: the texts of its entries                            *)
(***************************************************************************)
\* the report, the recommendations and the two texts of the test result of
\* a history entry
EntryTexts(r) ==
    {r.detailed_report, r.recommendations, r.test_result.error_message,
     r.test_result.output}

\* C34: no entry of the evaluation history refers to released storage: the
\* release of the result that was handed to save_evaluation_history leaves
\* the texts of the entry valid
C34_HistoryTextsValid ==
    \A k \in 1..Len(evolution.evaluation_history) :
        FREED \notin EntryTexts(evolution.evaluation_history[k])

(***************************************************************************)
(* Region engine: a region with an empty content                           *)
(***************************************************************************)
\* the line that ends at the newline out[k] holds a start marker
StartLineEndsAt(out, k) ==
    \E j \in 1..(k - 1) : out[j] = START /\ \A m \in j..(k - 1) : out[m] # NL

\* an empty line right behind a start marker line
GapAfterStart(out) ==
    \E k \in 1..(Len(out) - 1) :
        out[k] = NL /\ out[k + 1] = NL /\ StartLineEndsAt(out, k)

\* a region of the context with the empty string for its content
HasEmptyRegion(ctx) == \E r \in 1..Len(ctx.regions) : ctx.regions[r].content = <<>>

\* C35: assemble reads no byte outside a content: for a region with an empty
\* content the start marker line is directly followed by the end marker
\* line, nothing is written between them
C35_EmptyRegionAssembled ==
    (last_op.op = "assemble" /\ last_op.out # NULL /\ HasEmptyRegion(last_op.pre)) =>
        ~GapAfterStart(last_op.out)

(***************************************************************************)
(* Region engine: what update leaves alone                                 *)
(***************************************************************************)
\* everything of a region but its content and its generation
Kept(r) == <<r.description, r.fitness_score, r.start_line, r.end_line>>

\* C36: update(ctx, d, c) changes only the content and the generation of the
\* region named d: the enabled flag is kept, every other region stays at its
\* place with all its fields, and d keeps its fitness and its line span
C36_UpdateFrame ==
    last_op.op = "update" =>
        LET i == FindRegion(last_op.pre, last_op.desc) IN
        /\ evolution.evolution_enabled = last_op.pre.evolution_enabled
        /\ Len(evolution.regions) >= Len(last_op.pre.regions)
        /\ \A k \in 1..Len(last_op.pre.regions) :
              IF k = i
              THEN Kept(evolution.regions[k]) = Kept(last_op.pre.regions[k])
              ELSE evolution.regions[k] = last_op.pre.regions[k]

\* an update that changed the content of a parsed region, the second of
\* three, whose line span is not the one of a new region
C36_Witness ==
    /\ UpdatedExisting(last_op)
    /\ Len(last_op.pre.regions) >= 3
    /\ FindRegion(last_op.pre, last_op.desc) = 2
    /\ evolution.regions[2].end_line > 0
    /\ evolution.regions[2].content # last_op.pre.regions[2].content

(***************************************************************************)
(* Region engine: the cap on the number of regions                         *)
(***************************************************************************)
\* the lines of T that close a region, in the order of the text
ClosingLines(T) == {k \in 1..Len(T) : Closes(T, k)}

\* the regions are the first ones closed in the lines T, at most
\* MAX_EVOLUTION_REGIONS of them: region j ends at the j-th closing line
FirstClosed(regions, ends) ==
    /\ Len(regions) = IF Cardinality(ends) < MAX_EVOLUTION_REGIONS
                      THEN Cardinality(ends) ELSE MAX_EVOLUTION_REGIONS
    /\ \A j \in 1..Len(regions) :
          /\ (regions[j].end_line + 1) \in ends
          /\ Cardinality({k \in ends : k <= regions[j].end_line + 1}) = j

\* C37: the region count is at most MAX_EVOLUTION_REGIONS in every state: a
\* parse records the first closed regions of the code and no more than 50,
\* and an update with an unknown description on a context with 50 regions
\* changes nothing
C37_RegionCap ==
    /\ Len(evolution.regions) <= MAX_EVOLUTION_REGIONS
    /\ ParsedMarkers =>
          FirstClosed(evolution.regions, ClosingLines(TokenLines(last_op.content)))
    /\ (UpdatedMissing(last_op) /\ Len(last_op.pre.regions) = MAX_EVOLUTION_REGIONS) =>
          evolution = last_op.pre

\* a parse of a code with more than 50 closed regions, and then an update
\* with an unknown description on the full context the parse left
C37_Witness ==
    /\ prev_op.op = "parse"
    /\ Cardinality(ClosingLines(TokenLines(prev_op.content))) > MAX_EVOLUTION_REGIONS
    /\ UpdatedMissing(last_op)
    /\ Len(last_op.pre.regions) = MAX_EVOLUTION_REGIONS
    /\ Len(evolution.regions) = MAX_EVOLUTION_REGIONS

(***************************************************************************)
(* run_collaboration: the NORMAL iterations of a run                       *)
(***************************************************************************)
\* the loop was left by its condition, by the cap or by the break
LoopLeft == pc = "after_loop"

\* the bodies with the indices 0 .. N-1 have all been run
AllNormalDone ==
    /\ iteration >= config.iterations
    /\ total_iterations >= config.iterations
    /\ conv_iterations >= config.iterations

\* C38: a run that does not abort fatally runs all N NORMAL iterations before
\* it stops: when the loop is left at least N bodies have been run, the index
\* is past N-1 and no index was skipped on the way, whether the solution
\* passed all three stages in an earlier iteration or not
C38_AllNormalIterations ==
    /\ [](LoopLeft => AllNormalDone)
    /\ [][/\ iteration' \in {iteration, iteration + 1}
          /\ total_iterations' \in {total_iterations, total_iterations + 1}]_vars

\* the loop was left by its condition after exactly N = 2 bodies, with a
\* solution that passes all three stages
C38_Witness ==
    /\ LoopLeft
    /\ obs.exit = "condition"
    /\ config.iterations = MaxIterations
    /\ total_iterations = config.iterations
    /\ strlen(current_solution) > 0
    /\ ~has_code_errors(last_test_result)

\* a solution that passes all three stages while NORMAL iterations are still
\* to come: the run goes on
C38_PassedEarly ==
    /\ pc = "loop"
    /\ iteration < config.iterations
    /\ iteration > 0
    /\ strlen(current_solution) > 0
    /\ ~has_code_errors(last_test_result)

====
